---- MODULE Spec2Model ----
(***************************************************************************)
(* Short-code allocation of the link shortener: the code space enumerator  *)
(* (indexToCode), the allocation store (code_state.next_index and the      *)
(* recycled_codes table), the allocator (allocateCode /                    *)
(* _allocateCodeInternal), release (recycleCode), and the callers that     *)
(* bind and unbind codes: POST /api/link/shorten, POST /api/link/delete    *)
(* and the pruner (pruneOldLinks / schedulePrune).                         *)
(*                                                                         *)
(* A code is a sequence of one-character strings.  Time is counted in      *)
(* minutes and kept as ages: a row's age is NOW() - created_at and         *)
(* sincePrune is Date.now() - lastPruneRun, both saturating at AgeCap,     *)
(* beyond which no comparison of the program changes.  The database is     *)
(* modelled with row locks only: SELECT ... FOR UPDATE locks the rows it   *)
(* returns until the transaction ends, and a statement that needs a locked *)
(* row waits.  String comparison in SQL (=, ORDER BY) is modelled as       *)
(* exact, byte-wise comparison, except in SpecCollate, where = and the     *)
(* unique keys compare codes as the default collation of utf8mb4 does,     *)
(* without regard to case.                                                 *)
(***************************************************************************)
EXTENDS Integers, Sequences, FiniteSets, TLC

(***************************************************************************)
(* Bounds of the model.                                                    *)
(***************************************************************************)
\* fresh codes minted from the cursor in one behaviour of Spec (concurrent
\* requests) and of SpecSeq (one request at a time)
MaxMint == 1

MaxMintSeq == 3

\* fresh codes minted in one behaviour of SpecApi (direct calls)
MaxMintApi == 1

\* fresh codes minted in one behaviour of SpecPrune (one prune run at a time)
MaxMintPrune == 2

\* fresh codes minted in one behaviour of SpecTimed, and the minutes its
\* clock runs
MaxMintTimed == 1

MaxTick == 5

\* fresh codes minted in one behaviour of SpecCollate
MaxMintCollate == 2

\* Numbers taken on each side of the end of a block of codes of one length
NumberSpan == 12

\* fresh codes minted in one behaviour of SpecBackground
MaxMintBackground == 1

\* fresh codes minted in one behaviour of SpecStall
MaxMintStall == 1

\* fresh codes minted in one behaviour of SpecDelete
MaxMintDelete == 1

\* fresh codes minted in one behaviour of SpecRace
MaxMintRace == 2

\* rows of short_links in the direct calls of checkLinkShortenAllowed
MaxRows == 3

\* indices probed past the first code of length 3 in SpecOrder
OrderSpan == 2

\* indices taken on each side of the start of a block of codes of one length
ProbeSpan == 2

(***************************************************************************)
(* codegen.js: alphabet, reserved codes, enumerator.                       *)
(***************************************************************************)
ALPHABET ==
  << "a", "b", "c", "d", "e", "f", "g", "h", "i", "j", "k", "l", "m",
     "n", "o", "p", "q", "r", "s", "t", "u", "v", "w", "x", "y", "z",
     "A", "B", "C", "D", "E", "F", "G", "H", "I", "J", "K", "L", "M",
     "N", "O", "P", "Q", "R", "S", "T", "U", "V", "W", "X", "Y", "Z",
     "0", "1", "2", "3", "4", "5", "6", "7", "8", "9",
     "-", "_", ".", "~", "!", "$", "&", "'", "(", ")", "*", "+", ",",
     ";", "=", "@", ":" >>

BASE == Len(ALPHABET)

MAX_LEN == 16

\* byte value of each character of ALPHABET, position by position
AlphabetBytes ==
  << 97, 98, 99, 100, 101, 102, 103, 104, 105, 106, 107, 108, 109,
     110, 111, 112, 113, 114, 115, 116, 117, 118, 119, 120, 121, 122,
     65, 66, 67, 68, 69, 70, 71, 72, 73, 74, 75, 76, 77,
     78, 79, 80, 81, 82, 83, 84, 85, 86, 87, 88, 89, 90,
     48, 49, 50, 51, 52, 53, 54, 55, 56, 57,
     45, 95, 46, 126, 33, 36, 38, 39, 40, 41, 42, 43, 44,
     59, 61, 64, 58 >>

RESERVED_CODES ==
  { << "a", "p", "i" >>,
    << "a", "p", "p" >>,
    << "s", "e", "c", "u", "r", "i", "t", "y" >>,
    << "l", "o", "g", "i", "n" >>,
    << "r", "e", "g", "i", "s", "t", "e", "r" >>,
    << "l", "o", "g", "o", "u", "t" >>,
    << "_", "a", "s", "t", "r", "o" >>,
    << "f", "a", "v", "i", "c", "o", "n", ".", "s", "v", "g" >>,
    << "r", "o", "b", "o", "t", "s", ".", "t", "x", "t" >>,
    << "s", "i", "t", "e", "m", "a", "p", ".", "x", "m", "l" >> }

\* a check that takes no code for reserved
IsReserved_Never(code) == FALSE

\* RESERVED_CODES.has(code)
IsReserved(code) == code \in RESERVED_CODES

\* a loop whose block size stays BASE for every length
RECURSIVE FindBlock_Flat(_, _, _)
FindBlock_Flat(remaining, length, blockSize) ==
  IF remaining >= blockSize
    THEN IF length + 1 > MAX_LEN
           THEN [err |-> "Exhausted code space (length > MAX_LEN)",
                 remaining |-> 0, length |-> 0]
           ELSE FindBlock_Flat(remaining - blockSize, length + 1, blockSize)
    ELSE [err |-> "none", remaining |-> remaining, length |-> length]

\* the while loop of indexToCode: subtract block sizes BASE^1, BASE^2, ...
RECURSIVE FindBlock(_, _, _)
FindBlock(remaining, length, blockSize) ==
  IF remaining >= blockSize
    THEN IF length + 1 > MAX_LEN
           THEN [err |-> "Exhausted code space (length > MAX_LEN)",
                 remaining |-> 0, length |-> 0]
           ELSE FindBlock(remaining - blockSize, length + 1, blockSize * BASE)
    ELSE [err |-> "none", remaining |-> remaining, length |-> length]

\* n as a numeral without its leading zero digits
RECURSIVE RenderDigits_Minimal(_, _)
RenderDigits_Minimal(n, length) ==
  IF n < BASE
    THEN << ALPHABET[n + 1] >>
    ELSE Append(RenderDigits_Minimal(n \div BASE, length), ALPHABET[(n % BASE) + 1])

\* n as a numeral of `length` digits, least significant digit first
RECURSIVE RenderDigits_Reversed(_, _)
RenderDigits_Reversed(n, length) ==
  IF length = 0
    THEN << >>
    ELSE << ALPHABET[(n % BASE) + 1] >> \o RenderDigits_Reversed(n \div BASE, length - 1)

\* the for loop of indexToCode: n as a numeral of exactly `length` digits
RECURSIVE RenderDigits(_, _)
RenderDigits(n, length) ==
  IF length = 0
    THEN << >>
    ELSE Append(RenderDigits(n \div BASE, length - 1), ALPHABET[(n % BASE) + 1])

\* an enumerator without the check of the sign of its argument
indexToCode_Unchecked(index) ==
  LET b == FindBlock(index, 1, BASE)
  IN  IF b.err # "none"
        THEN [err |-> b.err, code |-> << >>]
        ELSE [err |-> "none", code |-> RenderDigits(b.remaining, b.length)]

indexToCode(index) ==
  IF index < 0
    THEN [err |-> "Negative index", code |-> << >>]
    ELSE LET b == FindBlock(index, 1, BASE)
         IN  IF b.err # "none"
               THEN [err |-> b.err, code |-> << >>]
               ELSE [err |-> "none", code |-> RenderDigits(b.remaining, b.length)]

(***************************************************************************)
(* Time, configuration and callers.                                        *)
(***************************************************************************)
\* prune.js: MIN_INTERVAL_MS = 5 * 60 * 1000, BATCH_SIZE = 200
MIN_INTERVAL_MS == 5 * 60 * 1000

BATCH_SIZE == 200

\* LIMIT of the recycled_codes SELECT in _allocateCodeInternal
RECYCLE_LIMIT == 10

\* the clock counts minutes; Date.now() is in milliseconds, INTERVAL ? DAY in days
MS_PER_MINUTE == 60 * 1000

MINUTES_PER_DAY == 24 * 60

\* the clock moves by a day and a minute
AdvanceSteps == { MINUTES_PER_DAY + 1 }

\* SQL NULL in short_links.user_id, and the error-free result of a call
NoUser == "NULL"

NoCode == << >>

\* configSchema: limits defaults, with the shortest retention (1 day)
DefaultConfig ==
  [ linkShortenerPerHour       |-> 100,
    linkShortenerGlobalPerHour |-> 10000,
    rateLimitWindowMinutes     |-> 60,
    codeAllocationRetries      |-> 10,
    maxConcurrentAllocations   |-> 50,
    delete_unused_after_days   |-> 1 ]

\* callers of POST /api/link/shorten and /api/link/delete: a signed-in user
\* and an anonymous visitor (getSessionUser, visitor_id cookie, clientAddress)
Clients ==
  [ alice |-> [user_id |-> "u1",   visitor_uuid |-> "v-alice", ip |-> "10.0.0.1"],
    anon  |-> [user_id |-> NoUser, visitor_uuid |-> "anon",    ip |-> "10.0.0.2"],
    carol |-> [user_id |-> NoUser, visitor_uuid |-> "v-carol", ip |-> "10.0.0.1"] ]

\* the callers of the endpoints; carol, a visitor behind alice's address, is in
\* rows the rate check reads
ClientIds == { "alice", "anon" }

\* concurrent POST /api/link/shorten requests, and who sends each
Requests == { "r1", "r2" }

Caller == [r1 |-> "alice", r2 |-> "anon"]

\* ages saturate one minute past the retention period
AgeCap == DefaultConfig.delete_unused_after_days * MINUTES_PER_DAY + 1

\* states the store starts from: a new store; every one-character code
\* issued and "b" released since; the cursor on "apo", the code before the
\* reserved "app"; the cursor on "app"
StartStores ==
  { [next_index |-> 0, recycled |-> {}],
    [next_index |-> BASE, recycled |-> { << "b" >> }],
    [next_index |-> BASE + BASE * BASE + 15 * BASE + 14, recycled |-> {}],
    [next_index |-> BASE + BASE * BASE + 15 * BASE + 15, recycled |-> {}] }

VARIABLES
  next_index,            \* code_state.next_index
  recycled_codes,        \* rows of recycled_codes: [short_code, code_length]
  short_links,           \* rows of short_links: [short_code, client, age]
  rowLocks,              \* recycled_codes rows locked FOR UPDATE: [short_code, owner]
  cursorLock,            \* owner of the code_state row lock, or "none"
  concurrentAllocations, \* codegen.js module counter
  sincePrune,            \* Date.now() - lastPruneRun of prune.js (minutes)
  config,                \* getConfig()
  req,                   \* per shorten request: position and locals
  del,                   \* the delete request: position and locals
  prune,                 \* the prune run: position and locals
  hist,                  \* history: what allocate() returned and release() took back
  probe                  \* direct calls of indexToCode: arguments and results

vars == << next_index, recycled_codes, short_links, rowLocks, cursorLock,
           concurrentAllocations, sincePrune, config, req, del, prune, hist, probe >>

dbVars == << next_index, recycled_codes, short_links >>

(***************************************************************************)
(* Queries.                                                                *)
(***************************************************************************)
ByteOf(ch) == AlphabetBytes[CHOOSE i \in 1..BASE : ALPHABET[i] = ch]

\* ORDER BY short_code ASC on two distinct strings
RECURSIVE CodeLess(_, _)
CodeLess(x, y) ==
  IF x = << >> THEN y # << >>
  ELSE IF y = << >> THEN FALSE
  ELSE IF Head(x) = Head(y) THEN CodeLess(Tail(x), Tail(y))
  ELSE ByteOf(Head(x)) < ByteOf(Head(y))

\* an ordering by short_code alone
RowBefore_CodeOnly(r1, r2) == CodeLess(r1.short_code, r2.short_code)

\* an ordering by code_length ASC, short_code DESC
RowBefore_CodeDesc(r1, r2) ==
  \/ r1.code_length < r2.code_length
  \/ r1.code_length = r2.code_length /\ CodeLess(r2.short_code, r1.short_code)

\* ORDER BY code_length ASC, short_code ASC
RowBefore(r1, r2) ==
  \/ r1.code_length < r2.code_length
  \/ r1.code_length = r2.code_length /\ CodeLess(r1.short_code, r2.short_code)

\* SELECT short_code FROM recycled_codes ORDER BY ... LIMIT limit
RECURSIVE SelectRecycled(_, _)
SelectRecycled(rows, limit) ==
  IF rows = {} \/ limit = 0
    THEN << >>
    ELSE LET first == CHOOSE r \in rows : \A o \in rows \ {r} : RowBefore(r, o)
         IN  << first.short_code >> \o SelectRecycled(rows \ {first}, limit - 1)

\* a scan that never takes a code of the batch
FirstUsable_None(batch) == NoCode

\* the for loop over the batch: first code that is not reserved, or NoCode
RECURSIVE FirstUsable(_)
FirstUsable(batch) ==
  IF batch = << >> THEN NoCode
  ELSE IF ~IsReserved(Head(batch)) THEN Head(batch)
  ELSE FirstUsable(Tail(batch))

\* a loop that takes the code at nextIndex whatever it is
SkipReserved_NoSkip(nextIndex, retries, maxRetries) ==
  [err |-> "none", index |-> nextIndex, code |-> indexToCode(nextIndex).code]

\* a loop that gives up one reserved code too early
RECURSIVE SkipReserved_Strict(_, _, _)
SkipReserved_Strict(nextIndex, retries, maxRetries) ==
  LET c == indexToCode(nextIndex)
  IN  IF c.err # "none" THEN [err |-> "Service error", index |-> nextIndex, code |-> NoCode]
      ELSE IF ~IsReserved(c.code) THEN [err |-> "none", index |-> nextIndex, code |-> c.code]
      ELSE IF retries + 1 >= maxRetries
        THEN [err |-> "Service temporarily unavailable", index |-> nextIndex, code |-> NoCode]
      ELSE SkipReserved_Strict(nextIndex + 1, retries + 1, maxRetries)

\* the while loop skipping reserved codes from nextIndex
RECURSIVE SkipReserved(_, _, _)
SkipReserved(nextIndex, retries, maxRetries) ==
  LET c == indexToCode(nextIndex)
  IN  IF c.err # "none" THEN [err |-> "Service error", index |-> nextIndex, code |-> NoCode]
      ELSE IF ~IsReserved(c.code) THEN [err |-> "none", index |-> nextIndex, code |-> c.code]
      ELSE IF retries + 1 > maxRetries
        THEN [err |-> "Service temporarily unavailable", index |-> nextIndex, code |-> NoCode]
      ELSE SkipReserved(nextIndex + 1, retries + 1, maxRetries)

\* a code with its letters A..Z replaced by a..z
FoldCase(code) ==
  [i \in DOMAIN code |->
     LET k == CHOOSE n \in DOMAIN ALPHABET : ALPHABET[n] = code[i]
     IN  IF k \in 27..52 THEN ALPHABET[k - 26] ELSE code[i]]

\* short_code = ? and the PRIMARY / UNIQUE key on short_code: the tables are
\* created with DEFAULT CHARSET=utf8mb4 or none, and no COLLATE
SameCode(x, y) ==
  IF hist.mode = "collated" THEN FoldCase(x) = FoldCase(y) ELSE x = y

\* a release that stores nothing
RecycleInsert_Dropped(rows, code) == rows

\* recycleCode: INSERT IGNORE INTO recycled_codes unless empty or reserved
RecycleInsert(rows, code) ==
  IF code = NoCode \/ IsReserved(code) THEN rows
  ELSE IF \E r \in rows : SameCode(r.short_code, code) THEN rows
  ELSE rows \cup { [short_code |-> code, code_length |-> Len(code)] }

\* a plain INSERT raises ER_DUP_ENTRY on a code that is in the table
DuplicateError_Plain(rows, code) ==
  IF \E r \in rows : r.short_code = code THEN "ER_DUP_ENTRY" ELSE "none"

\* recycleCode: what INSERT IGNORE raises on the rows of recycled_codes
DuplicateError(rows, code) == "none"

\* a REPLACE INTO code_state (id, next_index) VALUES (1, 0)
ensureCodegenTables_Reset(nextIndex) == 0

\* ensureCodegenTables: INSERT IGNORE INTO code_state (id, next_index) VALUES (1, 0)
\* leaves the row that is there as it is
ensureCodegenTables(nextIndex) == nextIndex

\* an UPDATE code_state SET next_index = next_index + 1
CursorAfter_Increment(nextIndex) == next_index + 1

\* an UPDATE that stores nextIndex + 2
CursorAfter_Skip(nextIndex) == nextIndex + 2

\* an UPDATE that stores nextIndex, the index of the code returned
CursorAfter_Stay(nextIndex) == nextIndex

\* UPDATE code_state SET next_index = ? with [nextIndex + 1]
CursorAfter(nextIndex) == nextIndex + 1

\* a DELETE that removes nothing
DeleteByCode_Keep(rows, code) == rows

\* DELETE FROM short_links WHERE short_code = ?
DeleteByCode(rows, code) == { r \in rows : ~SameCode(r.short_code, code) }

\* the INSERT IGNORE of ensureCodegenTables waits while the code_state row is locked
CursorRowFree(me) == cursorLock \in { "none", me }

\* a read that does not wait for row locks
LockedByOther_NoWait(code, me) == FALSE

\* a FOR UPDATE read or a write of the row waits while another holds its lock
LockedByOther(code, me) ==
  \E l \in rowLocks : SameCode(l.short_code, code) /\ l.owner # me

Range(s) == { s[i] : i \in DOMAIN s }

(***************************************************************************)
(* Initial state.                                                          *)
(***************************************************************************)
IdleReq ==
  [pc |-> "idle", client |-> "anon", code |-> NoCode, reused |-> FALSE,
   index |-> 0, status |-> 0, batch |-> << >>, error |-> "none", at |-> "none"]

IdleDel == [pc |-> "idle", client |-> "alice", code |-> NoCode, status |-> 0]

IdlePrune == [pc |-> "idle", stale |-> << >>, deleted |-> 0, batch |-> << >>, result |-> "none"]

\* no direct call of indexToCode or checkLinkShortenAllowed
NoProbe ==
  [pc |-> "off", i |-> 0, j |-> 0, ci |-> << >>, cj |-> << >>, cid |-> "anon", rl |-> << >>]

\* mode "api": allocateCode and recycleCode are called directly, and what a call
\* threw stays with its caller; "endpoints": they are called by the endpoints
\* and the pruner; "pruner": as "endpoints", and what the last prune run selected
\* and returned stays with the pruner; "timed": as "endpoints", and hist.events
\* keeps, for each caller, the ages of the links it created inside the rate
\* limit window, deleted since or not; "collated": as "endpoints", the database
\* compares codes without regard to case, and the status of the last response
\* stays with the request; "race": as "endpoints", the status of the last
\* response stays with the request, and hist.peak is the largest number of
\* requests that were in flight at once; "answers": as "endpoints", and the
\* status of the last response stays with the shorten and the delete request
InitStore(maxMint, mode, configs) ==
  /\ \E s \in StartStores :
       /\ next_index = s.next_index
       /\ recycled_codes = { [short_code |-> c, code_length |-> Len(c)] : c \in s.recycled }
       /\ hist = [start |-> s.next_index, returned |-> {}, outstanding |-> {},
                  twice |-> {}, minted |-> 0, maxMint |-> maxMint, released |-> FALSE,
                  pool0 |-> s.recycled, mode |-> mode,
                  events |-> [c \in DOMAIN Clients |-> << >>], peak |-> 0]
  /\ config \in configs
  /\ short_links = {}
  /\ rowLocks = {}
  /\ cursorLock = "none"
  /\ concurrentAllocations = 0
  /\ sincePrune = AgeCap
  /\ req = [p \in Requests |-> IdleReq]
  /\ del = IdleDel
  /\ prune = IdlePrune

InitWith(maxMint) == InitStore(maxMint, "endpoints", { DefaultConfig }) /\ probe = NoProbe

Init == InitWith(MaxMint)

InitSeq == InitWith(MaxMintSeq)

(***************************************************************************)
(* History bookkeeping (not program state).                                *)
(***************************************************************************)
\* allocate() committed and returned code
NoteReturned(h, code, fresh) ==
  [h EXCEPT !.returned = @ \cup {code},
            !.twice = IF code \in h.outstanding THEN @ \cup {code} ELSE @,
            !.outstanding = @ \cup {code},
            !.minted = IF fresh THEN @ + 1 ELSE @]

\* recycleCode(code) ran its INSERT IGNORE
NoteReleased(h, code) ==
  IF code = NoCode \/ IsReserved(code) THEN h
  ELSE [h EXCEPT !.outstanding = @ \ {code}, !.released = TRUE]

\* the INSERT INTO short_links of a caller succeeded (at most one event more
\* than the per-caller limit is kept)
NoteCreated(h, cid, limit) ==
  IF h.mode = "timed" /\ Len(h.events[cid]) <= limit
    THEN [h EXCEPT !.events[cid] = << 0 >> \o @]
  ELSE h

\* a request was admitted: n requests are in flight at once
NoteInFlight(h, n) ==
  IF h.mode = "race" /\ n > h.peak THEN [h EXCEPT !.peak = n] ELSE h

\* d minutes pass: events leave the window of windowMinutes
NoteElapsed(h, d, windowMinutes) ==
  IF h.mode = "timed"
    THEN [h EXCEPT !.events =
            [c \in DOMAIN @ |->
               SelectSeq([i \in DOMAIN @[c] |-> @[c][i] + d], LAMBDA a : a <= windowMinutes)]]
  ELSE h

(***************************************************************************)
(* rateLimit.js: checkLinkShortenAllowed.                                  *)
(***************************************************************************)
\* a count over every row, whenever it was created
InWindow_Always(row, windowMinutes) == TRUE

\* created_at >= NOW() - INTERVAL windowMinutes MINUTE
\* a window that holds no link
InWindow_Never(row, windowMinutes) == FALSE

InWindow(row, windowMinutes) == row.age <= windowMinutes

checkLinkShortenAllowed(cid) ==
  LET windowMinutes == IF config.rateLimitWindowMinutes # 0
                         THEN config.rateLimitWindowMinutes ELSE 60
      recent == { r \in short_links : InWindow(r, windowMinutes) }
      byUuid == Cardinality({ r \in recent :
                  Clients[r.client].visitor_uuid = Clients[cid].visitor_uuid })
      byIp == Cardinality({ r \in recent : Clients[r.client].ip = Clients[cid].ip })
      globalCount == Cardinality(recent)
      userAllowed == byUuid < config.linkShortenerPerHour
                     /\ byIp < config.linkShortenerPerHour
      globalAllowed == globalCount < config.linkShortenerGlobalPerHour
  IN  [allowed |-> userAllowed /\ globalAllowed, byUuid |-> byUuid, byIp |-> byIp,
       globalCount |-> globalCount]

(***************************************************************************)
(* prune.js: schedulePrune.                                                *)
(***************************************************************************)
\* a scheduler that starts a run at every call
PruneDue_Always == TRUE

\* schedulePrune starts a run unless the last one started under MIN_INTERVAL_MS ago
PruneDue == ~ (sincePrune * MS_PER_MINUTE < MIN_INTERVAL_MS)

\* SELECT short_code FROM short_links WHERE COALESCE(last_accessed, created_at)
\*   < NOW() - INTERVAL days DAY
StaleRows(days) == { r \in short_links : r.age > days * MINUTES_PER_DAY }

(***************************************************************************)
(* POST /api/link/shorten up to the call of allocateCode.                  *)
(***************************************************************************)
\* the response is sent and the request's locals are gone
Respond(p, status) ==
  IF hist.mode \in { "collated", "race", "answers" }
    THEN [IdleReq EXCEPT !.status = status]
  ELSE IdleReq

\* a request that goes on to allocateCode whatever the rate check returned
ReqStart_Unchecked(p, cid, dbOk) ==
  /\ req[p].pc = "idle"
  /\ IF ~dbOk
       THEN /\ req' = [req EXCEPT ![p] = Respond(p, 500)]
            /\ UNCHANGED << sincePrune, prune >>
     ELSE /\ req' = [req EXCEPT ![p] = [IdleReq EXCEPT !.pc = "alloc", !.client = cid]]
          /\ IF PruneDue
               THEN /\ sincePrune' = 0
                    /\ prune' = IF prune.pc = "idle"
                                  THEN [IdlePrune EXCEPT !.pc = "select"]
                                  ELSE prune
               ELSE UNCHANGED << sincePrune, prune >>
  /\ hist' = IF req'[p].pc = "alloc"
               THEN NoteInFlight(hist, Cardinality({ q \in Requests : req'[q].pc # "idle" }))
             ELSE hist
  /\ UNCHANGED << dbVars, rowLocks, cursorLock, concurrentAllocations, config, del >>

\* rate check, then schedulePrune(); dbOk = FALSE: the rate check's query throws
ReqStart(p, cid, dbOk) ==
  /\ req[p].pc = "idle"
  /\ LET rl == checkLinkShortenAllowed(cid)
     IN  IF ~dbOk
           THEN /\ req' = [req EXCEPT ![p] = Respond(p, 500)]
                /\ UNCHANGED << sincePrune, prune >>
         ELSE IF ~rl.allowed
           THEN /\ req' = [req EXCEPT ![p] = Respond(p, 429)]
                /\ UNCHANGED << sincePrune, prune >>
         ELSE /\ req' = [req EXCEPT ![p] = [IdleReq EXCEPT !.pc = "alloc", !.client = cid]]
              /\ IF PruneDue
                   THEN /\ sincePrune' = 0
                        \* one run is modelled at a time
                        /\ prune' = IF prune.pc = "idle"
                                      THEN [IdlePrune EXCEPT !.pc = "select"]
                                      ELSE prune
                   ELSE UNCHANGED << sincePrune, prune >>
  /\ hist' = IF req'[p].pc = "alloc"
               THEN NoteInFlight(hist, Cardinality({ q \in Requests : req'[q].pc # "idle" }))
             ELSE hist
  /\ UNCHANGED << dbVars, rowLocks, cursorLock, concurrentAllocations, config, del >>

(***************************************************************************)
(* codegen.js: allocateCode and _allocateCodeInternal.                     *)
(***************************************************************************)
\* allocateCode throws: the shorten endpoint answers 500; a direct caller
\* receives the error
AllocThrows(p, message) ==
  IF hist.mode = "api" THEN [IdleReq EXCEPT !.error = message, !.at = req[p].pc] ELSE Respond(p, 500)

\* a counter that is left as it is when a call ends
AfterFinally_Skipped(n) == n

\* the finally block of allocateCode: concurrentAllocations--
AfterFinally(n) == n - 1

\* positions of a call inside its transaction
TxnOpen == { "txn_pool", "txn_delete", "txn_deleted", "txn_cursor", "txn_update", "txn_updated" }

\* ensureCodegenTables, then the concurrent allocation limit
AllocEnter(p, dbOk) ==
  /\ req[p].pc = "alloc"
  /\ IF ~dbOk
       THEN /\ req' = [req EXCEPT ![p] = AllocThrows(p, "storage error")]
            /\ UNCHANGED << next_index, concurrentAllocations >>
     ELSE /\ CursorRowFree(p)
          /\ next_index' = ensureCodegenTables(next_index)
          /\ IF concurrentAllocations >= config.maxConcurrentAllocations
               THEN /\ req' = [req EXCEPT ![p] =
                                 AllocThrows(p, "Service temporarily unavailable")]
                    /\ UNCHANGED concurrentAllocations
               ELSE /\ concurrentAllocations' = concurrentAllocations + 1
                    /\ req' = [req EXCEPT ![p].pc = "txn_pool"]
  /\ UNCHANGED << recycled_codes, short_links, rowLocks, cursorLock, sincePrune, config, del,
                  prune, hist >>

\* a transaction that locks the code_state row before it reads the pool
AllocReadPool_CursorFirst(p) ==
  /\ req[p].pc = "txn_pool"
  /\ cursorLock = "none"
  /\ cursorLock' = p
  /\ LET batch == SelectRecycled(recycled_codes, RECYCLE_LIMIT)
         code == FirstUsable(batch)
     IN  /\ \A c \in Range(batch) : ~LockedByOther(c, p)
         /\ rowLocks' = rowLocks \cup { [short_code |-> c, owner |-> p] : c \in Range(batch) }
         /\ req' = [req EXCEPT ![p].pc = IF code # NoCode THEN "txn_delete" ELSE "txn_cursor",
                               ![p].code = code, ![p].batch = batch]
  /\ UNCHANGED << dbVars, concurrentAllocations, sincePrune, config, del, prune, hist >>

\* beginTransaction; SELECT short_code FROM recycled_codes ... LIMIT 10 FOR UPDATE;
\* the scan of the batch for the first code that is not reserved
AllocReadPool(p) ==
  /\ req[p].pc = "txn_pool"
  /\ LET batch == SelectRecycled(recycled_codes, RECYCLE_LIMIT)
         code == FirstUsable(batch)
     IN  /\ \A c \in Range(batch) : ~LockedByOther(c, p)
         /\ rowLocks' = rowLocks \cup { [short_code |-> c, owner |-> p] : c \in Range(batch) }
         /\ req' = [req EXCEPT ![p].pc = IF code # NoCode THEN "txn_delete" ELSE "txn_cursor",
                               ![p].code = code, ![p].batch = batch]
  /\ UNCHANGED << dbVars, cursorLock, concurrentAllocations, sincePrune, config, del, prune, hist >>

\* DELETE FROM recycled_codes WHERE short_code = ?: the row is deleted in the
\* transaction, which the other connections see at commit
AllocDeleteRecycled(p) ==
  /\ req[p].pc = "txn_delete"
  /\ req' = [req EXCEPT ![p].pc = "txn_deleted"]
  /\ UNCHANGED << dbVars, rowLocks, cursorLock, concurrentAllocations, sincePrune, config,
                  del, prune, hist >>

\* commit of the DELETE; return {code, reused: true}
AllocTakeRecycled(p) ==
  /\ req[p].pc = "txn_deleted"
  /\ recycled_codes' = { r \in recycled_codes : ~SameCode(r.short_code, req[p].code) }
  /\ rowLocks' = { l \in rowLocks : l.owner # p }
  /\ concurrentAllocations' = AfterFinally(concurrentAllocations)
  /\ req' = [req EXCEPT ![p].pc = "allocated", ![p].reused = TRUE]
  /\ hist' = NoteReturned(hist, req[p].code, FALSE)
  /\ UNCHANGED << next_index, short_links, cursorLock, sincePrune, config,
                  del, prune >>

\* SELECT next_index FROM code_state WHERE id=1 FOR UPDATE; indexToCode; the loop
\* that skips reserved codes
AllocLockCursor(p) ==
  /\ req[p].pc = "txn_cursor"
  /\ cursorLock = "none"
  /\ hist.minted < hist.maxMint
  /\ LET found == SkipReserved(next_index, 0, config.codeAllocationRetries)
     IN  IF found.err # "none"
           THEN \* thrown inside the transaction: rollback, and the finally of allocateCode
                /\ rowLocks' = { l \in rowLocks : l.owner # p }
                /\ concurrentAllocations' = AfterFinally(concurrentAllocations)
                /\ req' = [req EXCEPT ![p] = AllocThrows(p, found.err)]
                /\ UNCHANGED cursorLock
           ELSE /\ cursorLock' = p
                /\ req' = [req EXCEPT ![p].pc = "txn_update", ![p].code = found.code,
                                      ![p].index = found.index]
                /\ UNCHANGED << rowLocks, concurrentAllocations >>
  /\ UNCHANGED << dbVars, sincePrune, config, del, prune, hist >>

\* UPDATE code_state SET next_index = ? WHERE id=1: the new value is written in
\* the transaction, which the other connections see at commit
AllocUpdateCursor(p) ==
  /\ req[p].pc = "txn_update"
  /\ req' = [req EXCEPT ![p].pc = "txn_updated"]
  /\ UNCHANGED << dbVars, rowLocks, cursorLock, concurrentAllocations, sincePrune, config,
                  del, prune, hist >>

\* commit of the UPDATE; return {code, reused: false}
AllocAdvanceCursor(p) ==
  /\ req[p].pc = "txn_updated"
  /\ next_index' = CursorAfter(req[p].index)
  /\ cursorLock' = "none"
  /\ rowLocks' = { l \in rowLocks : l.owner # p }
  /\ concurrentAllocations' = AfterFinally(concurrentAllocations)
  /\ req' = [req EXCEPT ![p].pc = "allocated", ![p].reused = FALSE]
  /\ hist' = NoteReturned(hist, req[p].code, TRUE)
  /\ UNCHANGED << recycled_codes, short_links, sincePrune, config, del, prune >>

\* withConnection: getConnection() throws, or beginTransaction() before the try
\* block does; the error leaves allocateCode as it is, through its finally
AllocNoConnection(p) ==
  /\ req[p].pc = "txn_pool"
  /\ concurrentAllocations' = AfterFinally(concurrentAllocations)
  /\ req' = [req EXCEPT ![p] = AllocThrows(p, "storage error")]
  /\ UNCHANGED << dbVars, rowLocks, cursorLock, sincePrune, config, del, prune, hist >>

\* a failure path that keeps what the transaction wrote
AllocFail_Applied(p) ==
  /\ req[p].pc \in TxnOpen
  /\ recycled_codes' = IF req[p].pc = "txn_deleted"
                         THEN { r \in recycled_codes : r.short_code # req[p].code }
                         ELSE recycled_codes
  /\ next_index' = IF req[p].pc = "txn_updated" THEN CursorAfter(req[p].index) ELSE next_index
  /\ rowLocks' = { l \in rowLocks : l.owner # p }
  /\ cursorLock' = IF cursorLock = p THEN "none" ELSE cursorLock
  /\ concurrentAllocations' = AfterFinally(concurrentAllocations)
  /\ req' = [req EXCEPT ![p] = AllocThrows(p, "Service error")]
  /\ UNCHANGED << short_links, sincePrune, config, del, prune, hist >>

\* a statement of the transaction throws (storage error, lock wait timeout):
\* rollback, 'Service error', and the finally of allocateCode
AllocFail(p) ==
  /\ req[p].pc \in TxnOpen
  /\ rowLocks' = { l \in rowLocks : l.owner # p }
  /\ cursorLock' = IF cursorLock = p THEN "none" ELSE cursorLock
  /\ concurrentAllocations' = AfterFinally(concurrentAllocations)
  /\ req' = [req EXCEPT ![p] = AllocThrows(p, "Service error")]
  /\ UNCHANGED << dbVars, sincePrune, config, del, prune, hist >>

(***************************************************************************)
(* codegen.js: recycleCode.                                                *)
(***************************************************************************)
\* recycleCode(code) by `me`: nothing for an empty or reserved code; otherwise
\* ensureCodegenTables and the INSERT IGNORE, which waits for a row lock on `code`
recycleCode(code, me) ==
  IF code = NoCode \/ IsReserved(code)
    THEN UNCHANGED << next_index, recycled_codes >>
    ELSE /\ CursorRowFree(me)
         /\ ~LockedByOther(code, me)
         /\ next_index' = ensureCodegenTables(next_index)
         /\ recycled_codes' = RecycleInsert(recycled_codes, code)

(***************************************************************************)
(* POST /api/link/shorten after allocateCode returned.                     *)
(***************************************************************************)
\* a request that on a duplicate key calls allocateCode again
ReqInsert_Retry(p, dbOk) ==
  /\ req[p].pc = "allocated"
  /\ IF \E r \in short_links : SameCode(r.short_code, req[p].code)
       THEN /\ req' = [req EXCEPT ![p].pc = "alloc", ![p].code = NoCode]
            /\ UNCHANGED short_links
     ELSE IF ~dbOk
       THEN /\ req' = [req EXCEPT ![p].pc = "compensate", ![p].status = 500,
                                  ![p].error = "Failed to create short link"]
            /\ UNCHANGED short_links
     ELSE /\ short_links' = short_links \cup
               { [short_code |-> req[p].code, client |-> req[p].client, age |-> 0] }
          /\ req' = [req EXCEPT ![p] = Respond(p, 200)]
  /\ hist' = IF req'[p].pc = "idle"
               THEN NoteCreated(hist, req[p].client, config.linkShortenerPerHour)
             ELSE hist
  /\ UNCHANGED << next_index, recycled_codes, rowLocks, cursorLock,
                  concurrentAllocations, sincePrune, config, del, prune >>

\* INSERT INTO short_links; dbOk = FALSE: the insert throws another error than
\* ER_DUP_ENTRY, which the UNIQUE key raises when the code is already bound
ReqInsert(p, dbOk) ==
  /\ req[p].pc = "allocated"
  /\ IF \E r \in short_links : SameCode(r.short_code, req[p].code)
       THEN /\ req' = [req EXCEPT ![p].pc = "compensate", ![p].status = 503,
                                  ![p].error = "ER_DUP_ENTRY"]
            /\ UNCHANGED short_links
     ELSE IF ~dbOk
       THEN /\ req' = [req EXCEPT ![p].pc = "compensate", ![p].status = 500,
                                  ![p].error = "Failed to create short link"]
            /\ UNCHANGED short_links
     ELSE /\ short_links' = short_links \cup
               { [short_code |-> req[p].code, client |-> req[p].client, age |-> 0] }
          /\ req' = [req EXCEPT ![p] = Respond(p, 200)]
  /\ hist' = IF req'[p].pc = "idle"
               THEN NoteCreated(hist, req[p].client, config.linkShortenerPerHour)
             ELSE hist
  /\ UNCHANGED << next_index, recycled_codes, rowLocks, cursorLock,
                  concurrentAllocations, sincePrune, config, del, prune >>

\* a catch block that answers 500 when recycleCode threw
StatusAfterRelease_Escalated(status, released) == IF released THEN status ELSE 500

\* catch (re) { console.error(...) }: the status chosen for the failed insert
\* is answered whether recycleCode threw or not
StatusAfterRelease(status, released) == status

\* the catch block: recycleCode(shortCode), whose failure is logged and dropped
ReqCompensate(p, dbOk) ==
  /\ req[p].pc = "compensate"
  /\ IF dbOk
       THEN /\ recycleCode(req[p].code, p)
            /\ hist' = NoteReleased(hist, req[p].code)
       ELSE UNCHANGED << next_index, recycled_codes, hist >>
  /\ req' = [req EXCEPT ![p] = Respond(p, StatusAfterRelease(req[p].status, dbOk))]
  /\ UNCHANGED << short_links, rowLocks, cursorLock,
                  concurrentAllocations, sincePrune, config, del, prune >>

(***************************************************************************)
(* POST /api/link/delete.                                                  *)
(***************************************************************************)
\* the response is sent and the request's locals are gone
DelRespond(status) ==
  IF hist.mode = "answers" THEN [IdleDel EXCEPT !.status = status] ELSE IdleDel

\* a request that releases the code whether its DELETE removed a row or not
DelStart_AlwaysRelease(cid, code, dbOk) ==
  /\ del.pc = "idle"
  /\ LET mine == { r \in short_links :
                     /\ SameCode(r.short_code, code)
                     /\ Clients[r.client].user_id = Clients[cid].user_id }
     IN  IF Clients[cid].user_id = NoUser
           THEN del' = DelRespond(401) /\ UNCHANGED short_links
         ELSE IF ~dbOk
           THEN del' = DelRespond(500) /\ UNCHANGED short_links
         ELSE /\ short_links' = short_links \ mine
              /\ del' = [IdleDel EXCEPT !.pc = "recycle", !.client = cid, !.code = code]
  /\ UNCHANGED << next_index, recycled_codes, rowLocks, cursorLock,
                  concurrentAllocations, sincePrune, config, req, prune, hist >>

\* DELETE FROM short_links WHERE short_code = ? AND user_id = ?
DelStart(cid, code, dbOk) ==
  /\ del.pc = "idle"
  /\ LET mine == { r \in short_links :
                     /\ SameCode(r.short_code, code)
                     /\ Clients[r.client].user_id = Clients[cid].user_id }
     IN  IF Clients[cid].user_id = NoUser
           THEN del' = DelRespond(401) /\ UNCHANGED short_links
         ELSE IF ~dbOk
           THEN del' = DelRespond(500) /\ UNCHANGED short_links
         ELSE IF mine = {}
           THEN del' = DelRespond(404) /\ UNCHANGED short_links
         ELSE /\ short_links' = short_links \ mine
              /\ del' = [IdleDel EXCEPT !.pc = "recycle", !.client = cid, !.code = code]
  /\ UNCHANGED << next_index, recycled_codes, rowLocks, cursorLock,
                  concurrentAllocations, sincePrune, config, req, prune, hist >>

\* await recycleCode(code); a throw is answered with 500
DelRecycle(dbOk) ==
  /\ del.pc = "recycle"
  /\ IF dbOk
       THEN /\ recycleCode(del.code, "del")
            /\ hist' = NoteReleased(hist, del.code)
            /\ del' = DelRespond(200)
       ELSE /\ del' = DelRespond(500)
            /\ UNCHANGED << next_index, recycled_codes, hist >>
  /\ UNCHANGED << short_links, rowLocks, cursorLock,
                  concurrentAllocations, sincePrune, config, req, prune >>

\* codes a caller may name: the bound ones, and the next one never issued
DeletableCodes == { r.short_code : r \in short_links } \cup { indexToCode(next_index).code }

(***************************************************************************)
(* prune.js: pruneOldLinks.                                                *)
(***************************************************************************)
\* ORDER BY COALESCE(last_accessed, created_at) ASC LIMIT BATCH_SIZE: the orders
\* the database may return the stale rows in (rows of equal age in any order)
StaleOrders(rows) ==
  LET n == IF Cardinality(rows) < BATCH_SIZE THEN Cardinality(rows) ELSE BATCH_SIZE
  IN  { s \in [1..n -> rows] :
          /\ \A i, j \in 1..n : i < j => s[i] # s[j] /\ s[i].age >= s[j].age
          /\ \A r \in rows \ Range(s) : \A i \in 1..n : s[i].age >= r.age }

\* the run returns {skipped, affected} or {error}; nothing reads what it returns
PruneEnd(result, deleted) ==
  IF hist.mode = "pruner"
    THEN [IdlePrune EXCEPT !.deleted = deleted, !.batch = prune.batch, !.result = result]
  ELSE IdlePrune

\* a run whose failed SELECT ends the requests in flight
PruneSelect_Raises(dbOk) ==
  /\ prune.pc = "select"
  /\ LET days == config.delete_unused_after_days
     IN  IF days <= 0 THEN prune' = PruneEnd("skipped", 0) /\ UNCHANGED req
         ELSE IF ~dbOk
           THEN /\ prune' = PruneEnd("error", 0)
                /\ req' = [p \in Requests |->
                             IF req[p].pc \in { "alloc", "allocated", "compensate" }
                               THEN Respond(p, 500) ELSE req[p]]
         ELSE IF StaleRows(days) = {} THEN prune' = PruneEnd("ok", 0) /\ UNCHANGED req
         ELSE /\ \E s \in StaleOrders(StaleRows(days)) :
                   prune' = [prune EXCEPT !.pc = "delete",
                                          !.stale = [i \in DOMAIN s |-> s[i].short_code],
                                          !.batch = IF hist.mode = "pruner"
                                                      THEN [i \in DOMAIN s |-> s[i].short_code]
                                                    ELSE << >>]
              /\ UNCHANGED req
  /\ UNCHANGED << dbVars, rowLocks, cursorLock, concurrentAllocations, sincePrune,
                  config, del, hist >>

\* the SELECT of the stale rows
PruneSelect(dbOk) ==
  /\ prune.pc = "select"
  /\ LET days == config.delete_unused_after_days
     IN  IF days <= 0 THEN prune' = PruneEnd("skipped", 0)
         ELSE IF ~dbOk THEN prune' = PruneEnd("error", 0)
         ELSE IF StaleRows(days) = {} THEN prune' = PruneEnd("ok", 0)
         ELSE \E s \in StaleOrders(StaleRows(days)) :
                prune' = [prune EXCEPT !.pc = "delete",
                                       !.stale = [i \in DOMAIN s |-> s[i].short_code],
                                       !.batch = IF hist.mode = "pruner"
                                                   THEN [i \in DOMAIN s |-> s[i].short_code]
                                                 ELSE << >>]
  /\ UNCHANGED << dbVars, rowLocks, cursorLock, concurrentAllocations, sincePrune,
                  config, req, del, hist >>

\* next row of the loop, or its end
PruneNext(rest, deleted) ==
  IF rest = << >> THEN PruneEnd("ok", deleted)
  ELSE [prune EXCEPT !.pc = "delete", !.stale = rest, !.deleted = deleted]

\* a loop that releases the code whether or not its DELETE removed a row
PruneDelete_Always(dbOk) ==
  /\ prune.pc = "delete"
  /\ IF ~dbOk
       THEN prune' = PruneEnd("error", 0) /\ UNCHANGED short_links
     ELSE /\ short_links' = DeleteByCode(short_links, Head(prune.stale))
          /\ prune' = [prune EXCEPT !.pc = "recycle",
                                    !.deleted = @ + Cardinality({ r \in short_links :
                                                      r.short_code = Head(prune.stale) })]
  /\ UNCHANGED << next_index, recycled_codes, rowLocks, cursorLock,
                  concurrentAllocations, sincePrune, config, req, del, hist >>

\* DELETE FROM short_links WHERE short_code = ?
PruneDelete(dbOk) ==
  /\ prune.pc = "delete"
  /\ LET code == Head(prune.stale)
         hit == { r \in short_links : SameCode(r.short_code, code) }
     IN  IF ~dbOk
           THEN prune' = PruneEnd("error", 0) /\ UNCHANGED short_links
         ELSE IF hit = {}
           THEN prune' = PruneNext(Tail(prune.stale), prune.deleted) /\ UNCHANGED short_links
         ELSE /\ short_links' = DeleteByCode(short_links, code)
              /\ prune' = [prune EXCEPT !.pc = "recycle",
                                        !.deleted = @ + Cardinality(hit)]
  /\ UNCHANGED << next_index, recycled_codes, rowLocks, cursorLock,
                  concurrentAllocations, sincePrune, config, req, del, hist >>

\* a loop that does not release the code of the row it deleted
PruneRecycle_Skipped(dbOk) ==
  /\ prune.pc = "recycle"
  /\ prune' = IF dbOk THEN PruneNext(Tail(prune.stale), prune.deleted) ELSE PruneEnd("error", 0)
  /\ UNCHANGED << dbVars, hist, rowLocks, cursorLock,
                  concurrentAllocations, sincePrune, config, req, del >>

\* await recycleCode(code) for the row just deleted; a throw ends the run
PruneRecycle(dbOk) ==
  /\ prune.pc = "recycle"
  /\ IF dbOk
       THEN /\ recycleCode(Head(prune.stale), "prune")
            /\ hist' = NoteReleased(hist, Head(prune.stale))
            /\ prune' = PruneNext(Tail(prune.stale), prune.deleted)
       ELSE /\ prune' = PruneEnd("error", 0)
            /\ UNCHANGED << next_index, recycled_codes, hist >>
  /\ UNCHANGED << short_links, rowLocks, cursorLock,
                  concurrentAllocations, sincePrune, config, req, del >>

(***************************************************************************)
(* The clock.                                                              *)
(***************************************************************************)
Older(age, d) == IF age + d > AgeCap THEN AgeCap ELSE age + d

Advance(d) ==
  /\ short_links' = { [r EXCEPT !.age = Older(r.age, d)] : r \in short_links }
  /\ sincePrune' = Older(sincePrune, d)
  /\ hist' = NoteElapsed(hist, d, config.rateLimitWindowMinutes)
  /\ UNCHANGED << next_index, recycled_codes, rowLocks, cursorLock,
                  concurrentAllocations, config, req, del, prune >>

(***************************************************************************)
(* Specifications.                                                         *)
(***************************************************************************)
AllIdle == del.pc = "idle" /\ \A p \in Requests : req[p].pc = "idle"

Next ==
  /\ UNCHANGED probe
  /\ \/ \E p \in Requests, dbOk \in BOOLEAN : ReqStart(p, Caller[p], dbOk)
     \/ \E p \in Requests, dbOk \in BOOLEAN : AllocEnter(p, dbOk)
     \/ \E p \in Requests : AllocReadPool(p)
     \/ \E p \in Requests : AllocDeleteRecycled(p)
     \/ \E p \in Requests : AllocTakeRecycled(p)
     \/ \E p \in Requests : AllocLockCursor(p)
     \/ \E p \in Requests : AllocUpdateCursor(p)
     \/ \E p \in Requests : AllocAdvanceCursor(p)
     \/ \E p \in Requests : AllocFail(p)
     \/ \E p \in Requests : AllocNoConnection(p)
     \/ \E p \in Requests, dbOk \in BOOLEAN : ReqInsert(p, dbOk)
     \/ \E p \in Requests, dbOk \in BOOLEAN : ReqCompensate(p, dbOk)
     \/ \E cid \in ClientIds, code \in DeletableCodes, dbOk \in BOOLEAN : DelStart(cid, code, dbOk)
     \/ \E dbOk \in BOOLEAN : DelRecycle(dbOk)
     \/ \E dbOk \in BOOLEAN : PruneSelect(dbOk)
     \/ \E dbOk \in BOOLEAN : PruneDelete(dbOk)
     \/ \E dbOk \in BOOLEAN : PruneRecycle(dbOk)
     \/ \E d \in AdvanceSteps : Advance(d)

Spec == Init /\ [][Next]_vars

\* one operation at a time: shorten requests and delete requests of one caller,
\* each run to its end before the next starts; the prune run that a request
\* schedules does not get to run
NextSeq ==
  /\ UNCHANGED probe
  /\ \/ \E dbOk \in BOOLEAN : AllIdle /\ ReqStart("r1", Caller["r1"], dbOk)
     \/ \E dbOk \in BOOLEAN : AllocEnter("r1", dbOk)
     \/ AllocReadPool("r1")
     \/ AllocDeleteRecycled("r1")
     \/ AllocTakeRecycled("r1")
     \/ AllocLockCursor("r1")
     \/ AllocUpdateCursor("r1")
     \/ AllocAdvanceCursor("r1")
     \/ AllocFail("r1")
     \/ AllocNoConnection("r1")
     \/ \E dbOk \in BOOLEAN : ReqInsert("r1", dbOk)
     \/ \E dbOk \in BOOLEAN : ReqCompensate("r1", dbOk)
     \/ \E code \in DeletableCodes, dbOk \in BOOLEAN :
           AllIdle /\ DelStart(Caller["r1"], code, dbOk)
     \/ \E dbOk \in BOOLEAN : DelRecycle(dbOk)

SpecSeq == InitSeq /\ [][NextSeq]_vars

(***************************************************************************)
(* A prune run on its own: one request and one deletion at a time, and     *)
(* while pruneOldLinks runs nothing else takes a step.                     *)
(***************************************************************************)
InitPrune == InitStore(MaxMintPrune, "pruner", { DefaultConfig }) /\ probe = NoProbe

PruneIdle == prune.pc = "idle"

NextPrune ==
  /\ UNCHANGED probe
  /\ \/ \E dbOk \in BOOLEAN : AllIdle /\ PruneIdle /\ ReqStart("r1", Caller["r1"], dbOk)
     \/ \E dbOk \in BOOLEAN : PruneIdle /\ AllocEnter("r1", dbOk)
     \/ PruneIdle /\ AllocReadPool("r1")
     \/ PruneIdle /\ AllocDeleteRecycled("r1")
     \/ PruneIdle /\ AllocTakeRecycled("r1")
     \/ PruneIdle /\ AllocLockCursor("r1")
     \/ PruneIdle /\ AllocUpdateCursor("r1")
     \/ PruneIdle /\ AllocAdvanceCursor("r1")
     \/ PruneIdle /\ AllocFail("r1")
     \/ PruneIdle /\ AllocNoConnection("r1")
     \/ \E dbOk \in BOOLEAN : PruneIdle /\ ReqInsert("r1", dbOk)
     \/ \E dbOk \in BOOLEAN : PruneIdle /\ ReqCompensate("r1", dbOk)
     \/ \E code \in DeletableCodes, dbOk \in BOOLEAN :
           AllIdle /\ PruneIdle /\ DelStart(Caller["r1"], code, dbOk)
     \/ \E dbOk \in BOOLEAN : PruneIdle /\ DelRecycle(dbOk)
     \/ \E dbOk \in BOOLEAN : PruneSelect(dbOk)
     \/ \E dbOk \in BOOLEAN : PruneDelete(dbOk)
     \/ \E dbOk \in BOOLEAN : PruneRecycle(dbOk)
     \/ \E d \in AdvanceSteps : PruneIdle /\ Advance(d)

SpecPrune == InitPrune /\ [][NextPrune]_vars

(***************************************************************************)
(* The endpoints under a clock of one-minute ticks, with the least rate    *)
(* limits: one request and one deletion at a time.                         *)
(***************************************************************************)
\* configSchema: the least per-caller limit, a global limit of 2, a window of 2 minutes
RateConfig ==
  [DefaultConfig EXCEPT !.linkShortenerPerHour = 1, !.linkShortenerGlobalPerHour = 2,
                        !.rateLimitWindowMinutes = 2]

InitTimed == InitStore(MaxMintTimed, "timed", { RateConfig }) /\ probe = NoProbe

\* the clock moves by a minute
TickSteps == { 1 }

\* the clock runs until a link is MaxTick minutes old, or the last prune run is
ClockRuns ==
  /\ sincePrune = AgeCap \/ sincePrune < MaxTick
  /\ \A r \in short_links : r.age < MaxTick

NextTimed ==
  /\ UNCHANGED probe
  /\ \/ \E dbOk \in BOOLEAN : AllIdle /\ ReqStart("r1", Caller["r1"], dbOk)
     \/ \E dbOk \in BOOLEAN : AllocEnter("r1", dbOk)
     \/ AllocReadPool("r1")
     \/ AllocDeleteRecycled("r1")
     \/ AllocTakeRecycled("r1")
     \/ AllocLockCursor("r1")
     \/ AllocUpdateCursor("r1")
     \/ AllocAdvanceCursor("r1")
     \/ AllocFail("r1")
     \/ AllocNoConnection("r1")
     \/ \E dbOk \in BOOLEAN : ReqInsert("r1", dbOk)
     \/ \E dbOk \in BOOLEAN : ReqCompensate("r1", dbOk)
     \/ \E cid \in ClientIds, code \in DeletableCodes, dbOk \in BOOLEAN :
           AllIdle /\ DelStart(cid, code, dbOk)
     \/ \E dbOk \in BOOLEAN : DelRecycle(dbOk)
     \/ \E dbOk \in BOOLEAN : PruneSelect(dbOk)
     \/ \E d \in TickSteps : ClockRuns /\ Advance(d)

SpecTimed == InitTimed /\ [][NextTimed]_vars

(***************************************************************************)
(* allocateCode and recycleCode called directly by two callers, as the     *)
(* tests of codegen.js call them, with the limits at their defaults and at *)
(* their least values.                                                     *)
(***************************************************************************)
\* configSchema: the least concurrent allocation limit and retry count
TightConfig ==
  [DefaultConfig EXCEPT !.maxConcurrentAllocations = 1, !.codeAllocationRetries = 1]

InitApi == InitStore(MaxMintApi, "api", { DefaultConfig, TightConfig }) /\ probe = NoProbe

\* codes passed to recycleCode: codes allocateCode returned, no code, reserved codes
ReleaseCodes == hist.returned \cup { NoCode } \cup { c \in RESERVED_CODES : Len(c) = 3 }

\* a caller calls allocateCode()
ApiAllocate(p) ==
  /\ req[p].pc = "idle"
  /\ req' = [req EXCEPT ![p] = [IdleReq EXCEPT !.pc = "alloc"]]
  /\ UNCHANGED << dbVars, rowLocks, cursorLock, concurrentAllocations, sincePrune, config,
                  del, prune, hist >>

\* allocateCode() has returned {code, reused} to its caller
ApiTake(p) ==
  /\ req[p].pc = "allocated"
  /\ req' = [req EXCEPT ![p] = [IdleReq EXCEPT !.at = "allocated", !.code = req[p].code,
                                               !.reused = req[p].reused]]
  /\ UNCHANGED << dbVars, rowLocks, cursorLock, concurrentAllocations, sincePrune, config,
                  del, prune, hist >>

InPoolNow(code) == \E r \in recycled_codes : r.short_code = code

\* a caller calls recycleCode(code)
ApiRelease(p, code) ==
  /\ req[p].pc = "idle"
  /\ req' = [req EXCEPT ![p] = [IdleReq EXCEPT !.pc = "release", !.code = code]]
  /\ UNCHANGED << dbVars, rowLocks, cursorLock, concurrentAllocations, sincePrune, config,
                  del, prune, hist >>

\* recycleCode(code) runs: a return at once for no code or a reserved code;
\* otherwise ensureCodegenTables and the INSERT IGNORE, dbOk = FALSE: one throws
\* ("ignored" notes an INSERT IGNORE that found the code in the table)
ReleaseRun(p, dbOk) ==
  /\ req[p].pc = "release"
  /\ LET code == req[p].code
         done == [IdleReq EXCEPT !.at = "released", !.code = code]
     IN  IF code = NoCode \/ IsReserved(code)
           THEN /\ req' = [req EXCEPT ![p] = done]
                /\ UNCHANGED << next_index, recycled_codes, hist >>
         ELSE IF ~dbOk
           THEN /\ req' = [req EXCEPT ![p] = [done EXCEPT !.error = "storage error"]]
                /\ UNCHANGED << next_index, recycled_codes, hist >>
         ELSE /\ recycleCode(code, p)
              /\ hist' = NoteReleased(hist, code)
              /\ req' = [req EXCEPT ![p] =
                           [done EXCEPT !.error = DuplicateError(recycled_codes, code),
                                        !.at = IF InPoolNow(code) THEN "ignored"
                                               ELSE "released"]]
  /\ UNCHANGED << short_links, rowLocks, cursorLock, concurrentAllocations, sincePrune,
                  config, del, prune >>

NextApi ==
  /\ UNCHANGED probe
  /\ \/ \E p \in Requests : ApiAllocate(p)
     \/ \E p \in Requests, dbOk \in BOOLEAN : AllocEnter(p, dbOk)
     \/ \E p \in Requests : AllocReadPool(p)
     \/ \E p \in Requests : AllocDeleteRecycled(p)
     \/ \E p \in Requests : AllocTakeRecycled(p)
     \/ \E p \in Requests : AllocLockCursor(p)
     \/ \E p \in Requests : AllocUpdateCursor(p)
     \/ \E p \in Requests : AllocAdvanceCursor(p)
     \/ \E p \in Requests : AllocFail(p)
     \/ \E p \in Requests : AllocNoConnection(p)
     \/ \E p \in Requests : ApiTake(p)
     \/ \E p \in Requests, code \in ReleaseCodes : ApiRelease(p, code)
     \/ \E p \in Requests, dbOk \in BOOLEAN : ReleaseRun(p, dbOk)

SpecApi == InitApi /\ [][NextApi]_vars

(***************************************************************************)
(* indexToCode called directly on pairs of indices around the starts of    *)
(* the blocks of codes of one length.                                      *)
(***************************************************************************)
\* index of the first code of each length from 1 to 4
BlockStarts ==
  { 0, BASE, BASE + BASE * BASE, BASE + BASE * BASE + BASE * BASE * BASE }

ProbeIndices == { b + d : b \in BlockStarts, d \in -ProbeSpan .. ProbeSpan }

InitEnum ==
  /\ InitStore(MaxMint, "endpoints", { DefaultConfig })
  /\ next_index = 0
  /\ probe \in { [NoProbe EXCEPT !.pc = "ready", !.i = i, !.j = j] :
                    i \in ProbeIndices, j \in ProbeIndices }

\* indexToCode(i) and indexToCode(j)
EnumApply ==
  /\ probe.pc = "ready"
  /\ probe' = [probe EXCEPT !.pc = "done", !.ci = indexToCode(probe.i),
                            !.cj = indexToCode(probe.j)]
  /\ UNCHANGED << next_index, recycled_codes, short_links, rowLocks, cursorLock,
                  concurrentAllocations, sincePrune, config, req, del, prune, hist >>

NextEnum == EnumApply

SpecEnum == InitEnum /\ [][NextEnum]_vars

(***************************************************************************)
(* checkLinkShortenAllowed called directly, for each caller, on tables of  *)
(* MaxRows links created by the three clients inside, on the edge of and   *)
(* outside the window.                                                     *)
(***************************************************************************)
\* configSchema: a per-caller limit of 2 and a global limit of 3
RateConfig2 ==
  [RateConfig EXCEPT !.linkShortenerPerHour = 2, !.linkShortenerGlobalPerHour = 3]

\* created_at of a row: now, windowMinutes ago, a minute earlier
RateAges(cfg) == { 0, cfg.rateLimitWindowMinutes, cfg.rateLimitWindowMinutes + 1 }

\* tables of short_links over the first MaxRows codes: each code has no row,
\* or the row of one client and one age
RateTables(cfg) ==
  LET codes == { indexToCode(i).code : i \in 0 .. MaxRows - 1 }
      NoRow == [client |-> "none", age |-> 0]
      given == [client : DOMAIN Clients, age : RateAges(cfg)] \cup { NoRow }
  IN  { { [short_code |-> c, client |-> f[c].client, age |-> f[c].age] :
            c \in { x \in codes : f[x] # NoRow } } : f \in [codes -> given] }

InitRate ==
  /\ config \in { RateConfig, RateConfig2 }
  /\ short_links \in RateTables(config)
  /\ next_index = MaxRows
  /\ recycled_codes = {}
  /\ hist = [start |-> MaxRows, returned |-> {}, outstanding |-> {}, twice |-> {},
             minted |-> 0, maxMint |-> 0, released |-> FALSE, pool0 |-> {},
             mode |-> "endpoints", events |-> [c \in DOMAIN Clients |-> << >>], peak |-> 0]
  /\ rowLocks = {}
  /\ cursorLock = "none"
  /\ concurrentAllocations = 0
  /\ sincePrune = AgeCap
  /\ req = [p \in Requests |-> IdleReq]
  /\ del = IdleDel
  /\ prune = IdlePrune
  /\ probe \in { [NoProbe EXCEPT !.pc = "ready", !.cid = c] : c \in DOMAIN Clients }

RateApply ==
  /\ probe.pc = "ready"
  /\ probe' = [probe EXCEPT !.pc = "done", !.rl = checkLinkShortenAllowed(probe.cid)]
  /\ UNCHANGED << dbVars, rowLocks, cursorLock, concurrentAllocations, sincePrune, config,
                  req, del, prune, hist >>

NextRate == RateApply

SpecRate == InitRate /\ [][NextRate]_vars

(***************************************************************************)
(* The endpoints over tables that compare codes without regard to case:    *)
(* one shorten or delete request at a time, from the state in which the    *)
(* one-character codes "a" to "z" have been issued and are bound, and the  *)
(* cursor is on "A".                                                       *)
(***************************************************************************)
\* the codes of the first 26 indices, all bound by Caller["r1"]
LowerCaseLinks ==
  { [short_code |-> indexToCode(i).code, client |-> Caller["r1"], age |-> 0] : i \in 0..25 }

InitCollate ==
  /\ next_index = 26
  /\ recycled_codes = {}
  /\ short_links = LowerCaseLinks
  /\ hist = [start |-> 26, returned |-> {}, outstanding |-> {},
             twice |-> {}, minted |-> 0, maxMint |-> MaxMintCollate, released |-> FALSE,
             pool0 |-> {}, mode |-> "collated",
             events |-> [c \in DOMAIN Clients |-> << >>], peak |-> 0]
  /\ config = DefaultConfig
  /\ rowLocks = {}
  /\ cursorLock = "none"
  /\ concurrentAllocations = 0
  /\ sincePrune = 0
  /\ req = [p \in Requests |-> IdleReq]
  /\ del = IdleDel
  /\ prune = IdlePrune
  /\ probe = NoProbe

\* codes a delete request names: "a", "b" and their upper-case forms
CollateCodes == { indexToCode(i).code : i \in { 0, 1, 26, 27 } }

NextCollate ==
  /\ UNCHANGED probe
  /\ \/ \E dbOk \in BOOLEAN : AllIdle /\ ReqStart("r1", Caller["r1"], dbOk)
     \/ \E dbOk \in BOOLEAN : AllocEnter("r1", dbOk)
     \/ AllocReadPool("r1")
     \/ AllocDeleteRecycled("r1")
     \/ AllocTakeRecycled("r1")
     \/ AllocLockCursor("r1")
     \/ AllocUpdateCursor("r1")
     \/ AllocAdvanceCursor("r1")
     \/ AllocFail("r1")
     \/ AllocNoConnection("r1")
     \/ \E dbOk \in BOOLEAN : ReqInsert("r1", dbOk)
     \/ \E dbOk \in BOOLEAN : ReqCompensate("r1", dbOk)
     \/ \E code \in CollateCodes, dbOk \in BOOLEAN :
           AllIdle /\ DelStart(Caller["r1"], code, dbOk)
     \/ \E dbOk \in BOOLEAN : DelRecycle(dbOk)

SpecCollate == InitCollate /\ [][NextCollate]_vars

(***************************************************************************)
(* indexToCode over a run of consecutive indices: every index from 0 to    *)
(* just past the first code of length 3, each with its successor.          *)
(***************************************************************************)
InitOrder ==
  /\ InitStore(MaxMint, "endpoints", { DefaultConfig })
  /\ next_index = 0
  /\ probe \in { [NoProbe EXCEPT !.pc = "ready", !.i = i, !.j = i + 1] :
                    i \in 0..(BASE + BASE * BASE + OrderSpan) }

NextOrder == EnumApply

SpecOrder == InitOrder /\ [][NextOrder]_vars

(***************************************************************************)
(* Two concurrent shorten requests of one caller under a per-caller limit  *)
(* of one link: nothing is deleted and no time passes, so every link stays *)
(* inside the window.                                                      *)
(***************************************************************************)
InitRace ==
  /\ InitStore(MaxMintRace, "race", { RateConfig })
  /\ next_index = 0
  /\ probe = NoProbe

NextRace ==
  /\ UNCHANGED probe
  /\ \/ \E p \in Requests, dbOk \in BOOLEAN : ReqStart(p, Caller["r1"], dbOk)
     \/ \E p \in Requests, dbOk \in BOOLEAN : AllocEnter(p, dbOk)
     \/ \E p \in Requests : AllocReadPool(p)
     \/ \E p \in Requests : AllocDeleteRecycled(p)
     \/ \E p \in Requests : AllocTakeRecycled(p)
     \/ \E p \in Requests : AllocLockCursor(p)
     \/ \E p \in Requests : AllocUpdateCursor(p)
     \/ \E p \in Requests : AllocAdvanceCursor(p)
     \/ \E p \in Requests : AllocFail(p)
     \/ \E p \in Requests : AllocNoConnection(p)
     \/ \E p \in Requests, dbOk \in BOOLEAN : ReqInsert(p, dbOk)
     \/ \E p \in Requests, dbOk \in BOOLEAN : ReqCompensate(p, dbOk)

SpecRace == InitRace /\ [][NextRace]_vars

(***************************************************************************)
(* Shorten requests of a signed-in user and of an anonymous visitor, and   *)
(* delete requests of both, all concurrent; no prune run and no passing    *)
(* of time.                                                                *)
(***************************************************************************)
InitDelete == InitStore(MaxMintDelete, "answers", { DefaultConfig }) /\ probe = NoProbe

NextDelete ==
  /\ UNCHANGED probe
  /\ \/ \E p \in Requests, dbOk \in BOOLEAN : ReqStart(p, Caller[p], dbOk)
     \/ \E p \in Requests, dbOk \in BOOLEAN : AllocEnter(p, dbOk)
     \/ \E p \in Requests : AllocReadPool(p)
     \/ \E p \in Requests : AllocDeleteRecycled(p)
     \/ \E p \in Requests : AllocTakeRecycled(p)
     \/ \E p \in Requests : AllocLockCursor(p)
     \/ \E p \in Requests : AllocUpdateCursor(p)
     \/ \E p \in Requests : AllocAdvanceCursor(p)
     \/ \E p \in Requests : AllocFail(p)
     \/ \E p \in Requests : AllocNoConnection(p)
     \/ \E p \in Requests, dbOk \in BOOLEAN : ReqInsert(p, dbOk)
     \/ \E p \in Requests, dbOk \in BOOLEAN : ReqCompensate(p, dbOk)
     \/ \E cid \in ClientIds, code \in DeletableCodes, dbOk \in BOOLEAN : DelStart(cid, code, dbOk)
     \/ \E dbOk \in BOOLEAN : DelRecycle(dbOk)

SpecDelete == InitDelete /\ [][NextDelete]_vars

(***************************************************************************)
(* Direct calls of allocateCode over a database that may leave a statement *)
(* unanswered.  conn.query and conn.commit are awaited without a timer     *)
(* (createPool sets acquireTimeout and idleTimeout only), so a call whose  *)
(* statement is never answered stays where it is, with the locks of its    *)
(* transaction.  Fairness: a statement that is answered lets its call take *)
(* the next step, and a statement that waits for a lock ends with an       *)
(* error (lock wait timeout).                                              *)
(***************************************************************************)
InitStall == InitStore(MaxMintStall, "api", { DefaultConfig }) /\ probe = NoProbe

\* the statement in flight of caller p's transaction is being answered
Running(p) == req[p].at # "stalled"

\* the statement in flight of caller p's transaction is never answered
Stall(p) ==
  /\ req[p].pc \in TxnOpen
  /\ Running(p)
  /\ req' = [req EXCEPT ![p].at = "stalled"]
  /\ UNCHANGED << dbVars, rowLocks, cursorLock, concurrentAllocations, sincePrune, config,
                  del, prune, hist >>

\* the steps of caller p that follow an answer of the database
StallStep(p) ==
  \/ \E dbOk \in BOOLEAN : AllocEnter(p, dbOk)
  \/ Running(p) /\ AllocReadPool(p)
  \/ Running(p) /\ AllocDeleteRecycled(p)
  \/ Running(p) /\ AllocTakeRecycled(p)
  \/ Running(p) /\ AllocLockCursor(p)
  \/ Running(p) /\ AllocUpdateCursor(p)
  \/ Running(p) /\ AllocAdvanceCursor(p)
  \/ Running(p) /\ AllocFail(p)
  \/ Running(p) /\ AllocNoConnection(p)

NextStall ==
  /\ UNCHANGED probe
  /\ \/ \E p \in Requests : ApiAllocate(p)
     \/ \E p \in Requests : StallStep(p)
     \/ \E p \in Requests : Stall(p)
     \/ \E p \in Requests : ApiTake(p)

\* every call that can take a step after an answer eventually takes one
FairStall ==
  \A p \in Requests :
    /\ WF_vars(UNCHANGED probe /\ StallStep(p))
    /\ WF_vars(UNCHANGED probe /\ ApiTake(p))

SpecStall == InitStall /\ [][NextStall]_vars /\ FairStall

(***************************************************************************)
(* A shorten request and the prune run that schedulePrune() started, side  *)
(* by side: pruneOldLinks().then(...).catch(...) is not awaited, and its    *)
(* statements interleave with those of the request.                        *)
(***************************************************************************)
InitBackground == InitStore(MaxMintBackground, "pruner", { DefaultConfig }) /\ probe = NoProbe

NextBackground ==
  /\ UNCHANGED probe
  /\ \/ \E dbOk \in BOOLEAN : AllIdle /\ ReqStart("r1", Caller["r1"], dbOk)
     \/ \E dbOk \in BOOLEAN : AllocEnter("r1", dbOk)
     \/ AllocReadPool("r1")
     \/ AllocDeleteRecycled("r1")
     \/ AllocTakeRecycled("r1")
     \/ AllocLockCursor("r1")
     \/ AllocUpdateCursor("r1")
     \/ AllocAdvanceCursor("r1")
     \/ AllocFail("r1")
     \/ AllocNoConnection("r1")
     \/ \E dbOk \in BOOLEAN : ReqInsert("r1", dbOk)
     \/ \E dbOk \in BOOLEAN : ReqCompensate("r1", dbOk)
     \/ \E dbOk \in BOOLEAN : PruneSelect(dbOk)
     \/ \E dbOk \in BOOLEAN : PruneDelete(dbOk)
     \/ \E dbOk \in BOOLEAN : PruneRecycle(dbOk)
     \/ \E d \in AdvanceSteps : AllIdle /\ PruneIdle /\ Advance(d)

SpecBackground == InitBackground /\ [][NextBackground]_vars

(***************************************************************************)
(* indexToCode computes with JavaScript Numbers.  Up to 2^53 a Number is   *)
(* the integer itself and the operators above are that arithmetic; past it *)
(* a Number keeps 53 significant bits and every subtraction and product is *)
(* rounded to the nearest such value, ties to even.  The code space ends   *)
(* at BASE^1 + ... + BASE^MAX_LEN, far past 2^53, so the loop is modelled  *)
(* a second time on integer-valued Numbers, written as their digits in     *)
(* base 2^24, least significant first, without leading zeros.              *)
(***************************************************************************)
\* significant bits of a Number
NumberBits == 53

\* bits of one digit
DigitBits == 12 + 12

Radix == 2^DigitBits

NumDigit(a, i) == IF i \in DOMAIN a THEN a[i] ELSE 0

NumTrim(a) ==
  LET used == { i \in DOMAIN a : a[i] # 0 }
  IN  IF used = {} THEN << >>
      ELSE SubSeq(a, 1, CHOOSE i \in used : \A k \in used : k <= i)

\* the digits of a + b from position i on, with the carry into position i
RECURSIVE NumAddFrom(_, _, _, _)
NumAddFrom(a, b, i, carry) ==
  IF i > Len(a) /\ i > Len(b)
    THEN IF carry = 0 THEN << >> ELSE << carry >>
    ELSE LET sum == NumDigit(a, i) + NumDigit(b, i) + carry
         IN  << sum % Radix >> \o NumAddFrom(a, b, i + 1, sum \div Radix)

\* a + b, exact
NumAdd(a, b) == NumTrim(NumAddFrom(a, b, 1, 0))

\* the digits of a - b from position i on, with the borrow from position i
RECURSIVE NumSubFrom(_, _, _, _)
NumSubFrom(a, b, i, borrow) ==
  IF i > Len(a)
    THEN << >>
    ELSE LET diff == NumDigit(a, i) - NumDigit(b, i) - borrow
         IN  << (diff + Radix) % Radix >>
               \o NumSubFrom(a, b, i + 1, IF diff < 0 THEN 1 ELSE 0)

\* a - b for a >= b, exact
NumSub(a, b) == NumTrim(NumSubFrom(a, b, 1, 0))

\* a < b
NumLess(a, b) ==
  \/ Len(a) < Len(b)
  \/ /\ Len(a) = Len(b)
     /\ \E i \in DOMAIN a :
          /\ a[i] < b[i]
          /\ \A k \in (i + 1)..Len(a) : a[k] = b[k]

\* the digits of a * m from position i on, with the carry into position i
RECURSIVE NumTimesFrom(_, _, _, _)
NumTimesFrom(a, m, i, carry) ==
  IF i > Len(a)
    THEN IF carry = 0 THEN << >> ELSE << carry >>
    ELSE LET product == a[i] * m + carry
         IN  << product % Radix >> \o NumTimesFrom(a, m, i + 1, product \div Radix)

\* a * m for an integer 0 <= m < 128, exact
NumTimes(a, m) == NumTrim(NumTimesFrom(a, m, 1, 0))

\* the integer n >= 0
RECURSIVE NumOf(_)
NumOf(n) == IF n = 0 THEN << >> ELSE << n % Radix >> \o NumOf(n \div Radix)

\* 2^k
NumPowerOfTwo(k) ==
  LET n == (k \div DigitBits) + 1
  IN  SubSeq([i \in 1..n |-> IF i = n THEN 2^(k % DigitBits) ELSE 0], 1, n)

\* the number of bits of a
NumLength(a) ==
  IF a = << >> THEN 0
  ELSE LET top == a[Len(a)]
       IN  DigitBits * (Len(a) - 1)
             + (CHOOSE n \in 1..DigitBits : 2^(n - 1) <= top /\ top < 2^n)

\* the bit of a of weight 2^(i - 1)
NumBit(a, i) ==
  (NumDigit(a, ((i - 1) \div DigitBits) + 1) \div 2^((i - 1) % DigitBits)) % 2

\* a with its lowest `drop` bits cleared
NumClear(a, drop) ==
  SubSeq([i \in DOMAIN a |->
            IF DigitBits * i <= drop THEN 0
            ELSE IF DigitBits * (i - 1) >= drop THEN a[i]
            ELSE LET unit == 2^(drop - DigitBits * (i - 1))
                 IN  (a[i] \div unit) * unit],
         1, Len(a))

\* the number of bits of a below its last significant bit
NumUlp(a) == IF NumLength(a) <= NumberBits THEN 0 ELSE NumLength(a) - NumberBits

\* the Number nearest to the integer a, ties to even
NumRound(a) ==
  IF NumLength(a) <= NumberBits THEN a
  ELSE LET drop == NumUlp(a)
           half == NumBit(a, drop) = 1
           rest == \E i \in 1..(drop - 1) : NumBit(a, i) = 1
           odd  == NumBit(a, drop + 1) = 1
       IN  IF half /\ (rest \/ odd)
             THEN NumAdd(NumClear(a, drop), NumPowerOfTwo(drop))
             ELSE NumTrim(NumClear(a, drop))

\* BASE^1 + ... + BASE^n as an integer: the number of codes of length <= n
\* (the count for n - 1 is bound, so that it is computed once)
RECURSIVE NumCodesUpTo(_)
NumCodesUpTo(n) ==
  IF n = 0 THEN << >>
  ELSE CHOOSE count \in { NumTimes(NumAdd(<< 1 >>, shorter), BASE) :
                            shorter \in { NumCodesUpTo(n - 1) } } : TRUE

\* the Number k steps of the last significant bit away from mid
NumberSteps(mid, k) ==
  LET step == NumTimes(NumPowerOfTwo(NumUlp(mid)), IF k < 0 THEN -k ELSE k)
  IN  IF k < 0 THEN NumSub(mid, step) ELSE NumAdd(mid, step)

\* the Number k steps of the last significant bit away from the Number
\* nearest to the number of codes of length <= n
NumberNear(n, k) ==
  CHOOSE index \in { NumberSteps(mid, k) : mid \in { NumRound(NumCodesUpTo(n)) } } : TRUE

(***************************************************************************)
(* indexToCode called with the Numbers around the end of each block of     *)
(* codes of length 13 to MAX_LEN; the last of them is the end of the code  *)
(* space.  probe.ci holds the variables of the call, probe.cj what it      *)
(* threw or the length of the code it returned: the for loop fills         *)
(* Array(length) with one character of ALPHABET at each position, and      *)
(* which characters is not modelled for these indices.                     *)
(***************************************************************************)
NumberLengths == (MAX_LEN - 3)..MAX_LEN

InitNumber ==
  /\ InitStore(MaxMint, "endpoints", { DefaultConfig })
  /\ next_index = 0
  /\ probe \in { [NoProbe EXCEPT !.pc = "ready", !.i = n, !.j = k] :
                    n \in NumberLengths, k \in -NumberSpan .. NumberSpan }

NumberUnchanged ==
  UNCHANGED << next_index, recycled_codes, short_links, rowLocks, cursorLock,
               concurrentAllocations, sincePrune, config, req, del, prune, hist >>

\* let remaining = index; let length = 1; let blockSize = BASE
NumberCall ==
  /\ probe.pc = "ready"
  /\ probe' = [probe EXCEPT !.pc = "loop",
                            !.ci = [remaining |-> NumberNear(probe.i, probe.j),
                                    length |-> 1, blockSize |-> NumOf(BASE)]]
  /\ NumberUnchanged

\* one pass of the while loop that stays in the loop: remaining -= blockSize
\* and blockSize *= BASE are rounded to Numbers
NumberLoop ==
  /\ probe.pc = "loop"
  /\ ~NumLess(probe.ci.remaining, probe.ci.blockSize)
  /\ probe.ci.length + 1 <= MAX_LEN
  /\ probe' = [probe EXCEPT
                 !.ci = [remaining |-> NumRound(NumSub(probe.ci.remaining, probe.ci.blockSize)),
                         length |-> probe.ci.length + 1,
                         blockSize |-> NumRound(NumTimes(probe.ci.blockSize, BASE))]]
  /\ NumberUnchanged

\* if (length > MAX_LEN) throw new Error('Exhausted code space (length > MAX_LEN)')
NumberThrow ==
  /\ probe.pc = "loop"
  /\ ~NumLess(probe.ci.remaining, probe.ci.blockSize)
  /\ probe.ci.length + 1 > MAX_LEN
  /\ probe' = [probe EXCEPT !.pc = "done",
                            !.cj = [err |-> "Exhausted code space (length > MAX_LEN)",
                                    length |-> 0]]
  /\ NumberUnchanged

\* the loop ends and a code of `length` characters is returned
NumberReturn ==
  /\ probe.pc = "loop"
  /\ NumLess(probe.ci.remaining, probe.ci.blockSize)
  /\ probe' = [probe EXCEPT !.pc = "done",
                            !.cj = [err |-> "none", length |-> probe.ci.length]]
  /\ NumberUnchanged

NextNumber == NumberCall \/ NumberLoop \/ NumberThrow \/ NumberReturn

SpecNumber == InitNumber /\ [][NextNumber]_vars

(***************************************************************************)
(* Properties of the allocator.                                            *)
(***************************************************************************)
Bound(code) == { r \in short_links : r.short_code = code }

InPool(code) == \E r \in recycled_codes : r.short_code = code

\* allocate() of request p commits in this step
Commits(p) == req[p].pc \in { "txn_deleted", "txn_updated" } /\ req'[p].pc = "allocated"

\* index of the reserved code "app", and of "apo" before it
AppIndex == BASE + BASE * BASE + 15 * BASE + 15

C2_NeverReserved ==
  /\ hist.returned \cap RESERVED_CODES = {}
  /\ \A p \in Requests : req[p].pc = "allocated" => req[p].code \notin RESERVED_CODES

\* the cursor stood on "app" and a code was minted past it
C2_Witness ==
  /\ hist.start = AppIndex
  /\ \E p \in Requests : req[p].pc = "allocated" /\ ~req[p].reused

C4_NoLeak ==
  (AllIdle /\ prune.pc = "idle") =>
    \A c \in hist.returned \ RESERVED_CODES :
      Cardinality(Bound(c)) = 1 \/ InPool(c)

RECURSIVE NthNonReserved(_, _)
NthNonReserved(from, n) ==
  IF indexToCode(from).code \in RESERVED_CODES THEN NthNonReserved(from + 1, n)
  ELSE IF n <= 1 THEN from
  ELSE NthNonReserved(from + 1, n - 1)

\* C6: from an empty recycle pool and with no release, the n-th successful
\* allocate() in a sequence returns, with reused = false, the n-th non-reserved
\* code of the enumerator order from the starting cursor, and next_index is
\* past the index of every code returned or skipped
C6_SequentialOrder ==
  (hist.pool0 = {} /\ ~hist.released) =>
    /\ hist.returned =
         { indexToCode(NthNonReserved(hist.start, n)).code : n \in 1 .. hist.minted }
    /\ next_index = IF hist.minted = 0 THEN hist.start
                    ELSE NthNonReserved(hist.start, hist.minted) + 1
    /\ \A p \in Requests :
         req[p].pc = "allocated" =>
           /\ ~req[p].reused
           /\ req[p].code = indexToCode(NthNonReserved(hist.start, hist.minted)).code
           /\ req[p].index < next_index

\* the whole run of fresh codes was minted across the reserved "app"
C6_Witness ==
  /\ hist.pool0 = {} /\ ~hist.released /\ hist.minted = MaxMintSeq
  /\ hist.start < AppIndex /\ next_index > AppIndex
  /\ req["r1"].pc = "allocated"

\* C7: after an issued, non-reserved code c was released into an otherwise
\* empty pool, the next allocate() returns c with reused = true, and the
\* transaction does not go to the cursor while the pool it read holds a code
C7_ReleasedThenReused ==
  \A p \in Requests :
    /\ (req[p].pc \in (TxnOpen \cup { "allocated" }) \ { "txn_pool" }
          /\ Len(req[p].batch) = 1 /\ req[p].batch[1] \notin RESERVED_CODES) =>
         /\ req[p].pc \in { "txn_delete", "txn_deleted", "allocated" }
         /\ req[p].code = req[p].batch[1]
         /\ req[p].pc = "allocated" => req[p].reused
    /\ req[p].pc \in { "txn_cursor", "txn_update", "txn_updated" } =>
         Range(req[p].batch) \ RESERVED_CODES = {}

\* a code minted in this run and released since is the only one of the pool and
\* is returned again
C7_Witness ==
  \E p \in Requests :
    /\ hist.pool0 = {} /\ hist.released
    /\ req[p].pc = "allocated" /\ req[p].reused /\ req[p].batch = << req[p].code >>

\* x before y in the order of the character codes, for codes of one length
LexLess(x, y) ==
  \E k \in 1 .. Len(x) :
    /\ \A j \in 1 .. k - 1 : x[j] = y[j]
    /\ ByteOf(x[k]) < ByteOf(y[k])

C9_CursorMonotone ==
  [][/\ next_index' >= next_index
     /\ next_index' # next_index =>
          \E p \in Requests :
            req[p].pc = "txn_updated" /\ req'[p].pc = "allocated" /\ ~req'[p].reused]_vars

\* the cursor has moved while a release and another allocation went on
C9_Witness ==
  /\ next_index > hist.start /\ hist.released
  /\ \E p \in Requests : req[p].pc = "txn_pool"

\* C10 as stated: the code of every index below next_index (from the index
\* the cursor started at) has been returned by allocate() at least once
C10_AllIssued ==
  \A i \in hist.start .. next_index - 1 : indexToCode(i).code \in hist.returned

\* C10: the code of every index below next_index (from the index the cursor
\* started at) is reserved, or has been returned by allocate() at least once
C10_AllNonReservedIssued ==
  \A i \in hist.start .. next_index - 1 :
    indexToCode(i).code \notin RESERVED_CODES => indexToCode(i).code \in hist.returned

\* the cursor has gone past the index of the reserved "app"
C10_Witness == hist.start <= AppIndex /\ next_index > AppIndex /\ hist.returned # {}

Fails(p) == req[p].pc \in TxnOpen /\ req'[p].pc = "idle"

\* C12: an allocation transaction that fails at any step (a storage error, also
\* after the recycled entry was deleted or the cursor written; a missing
\* cursor row; an enumerator error; retry exhaustion) is rolled back: the step
\* leaves the pool and next_index as they are, the entry it had deleted is in
\* the pool, the cursor is not past the code it had minted, no code is noted
\* as returned, and the locks of the call are released
C12_RollbackRestores ==
  [][\A p \in Requests : Fails(p) =>
       /\ recycled_codes' = recycled_codes
       /\ next_index' = next_index
       /\ short_links' = short_links
       /\ hist'.returned = hist.returned /\ hist'.minted = hist.minted
       /\ req'[p].code = NoCode /\ req'[p].error # "none"
       /\ (req[p].pc = "txn_deleted" =>
             \E r \in recycled_codes' : r.short_code = req[p].code)
       /\ (req[p].pc = "txn_updated" =>
             next_index' <= req[p].index /\ req[p].code \notin hist'.returned)
       /\ cursorLock' # p
       /\ \A l \in rowLocks' : l.owner # p]_vars

\* a call has failed after it deleted the recycled entry, and the pool holds
\* that entry; another has failed after it wrote the cursor
C12_Witness ==
  /\ \E p \in Requests :
       /\ req[p].pc = "idle" /\ req[p].error = "Service error"
       /\ req[p].at = "txn_deleted"
       /\ { r.short_code : r \in recycled_codes } = hist.pool0 /\ recycled_codes # {}
  /\ \E p \in Requests :
       /\ req[p].pc = "idle" /\ req[p].error = "Service error"
       /\ req[p].at = "txn_updated"
       /\ next_index = hist.start

\* recycleCode of caller p returns or throws in this step
ReleaseEnds(p) == req[p].pc = "release" /\ req'[p].pc = "idle"

\* C13: recycleCode(code) with no code or with a reserved code does nothing: it
\* raises no error and leaves the pool, the cursor and the bindings as they
\* are; so no reserved string and no empty code is ever a row of the pool, and
\* none is returned by a later allocateCode
C13_ReleaseReservedNoOp ==
  [][/\ \A p \in Requests :
          (ReleaseEnds(p) /\ (req[p].code = NoCode \/ req[p].code \in RESERVED_CODES)) =>
            /\ recycled_codes' = recycled_codes
            /\ next_index' = next_index
            /\ short_links' = short_links
            /\ req'[p].error = "none"
     /\ \A r \in recycled_codes' : r.short_code \notin RESERVED_CODES \cup { NoCode }
     /\ hist'.returned \cap (RESERVED_CODES \cup { NoCode }) = {}]_vars

\* one caller has released the reserved code "app" and the other no code,
\* while the pool holds a code
C13_Witness ==
  /\ req["r1"].pc = "idle" /\ req["r1"].at = "released"
  /\ req["r1"].code = << "a", "p", "p" >> /\ req["r1"].error = "none"
  /\ req["r2"].pc = "idle" /\ req["r2"].at = "released"
  /\ req["r2"].code = NoCode /\ req["r2"].error = "none"
  /\ recycled_codes # {}

\* C14: recycleCode is idempotent: releasing a non-reserved code that is in
\* the pool already, after or during another release of the same code, raises
\* no error of its own (only a failure of the storage can end it with an
\* error) and leaves the pool as it is, with exactly one entry for the code;
\* a release of a code that is not in the pool adds exactly its one entry
C14_ReleaseIdempotent ==
  [][\A p \in Requests :
       (ReleaseEnds(p) /\ req[p].code # NoCode /\ req[p].code \notin RESERVED_CODES) =>
         LET code == req[p].code
             row == [short_code |-> code, code_length |-> Len(code)]
         IN  /\ req'[p].error \in { "none", "storage error" }
             /\ req'[p].error = "storage error" => recycled_codes' = recycled_codes
             /\ req'[p].error = "none" =>
                  /\ recycled_codes' = recycled_codes \cup { row }
                  /\ Cardinality({ r \in recycled_codes' : r.short_code = code }) = 1
                  /\ InPool(code) => recycled_codes' = recycled_codes]_vars

\* both callers have released the same code without an error, the second
\* release found it in the pool, and the pool has one entry for it
C14_Witness ==
  /\ req["r1"].pc = "idle" /\ req["r1"].at = "released" /\ req["r1"].error = "none"
  /\ req["r2"].pc = "idle" /\ req["r2"].at = "ignored" /\ req["r2"].error = "none"
  /\ req["r1"].code = req["r2"].code
  /\ Cardinality({ r \in recycled_codes : r.short_code = req["r1"].code }) = 1

\* allocateCode of caller p passes or fails its limit check in this step
Entered(p) == req[p].pc = "alloc" /\ req'[p].pc # "alloc"

\* C15: a call of allocateCode that finds the counter at or above the ceiling
\* fails with 'Service temporarily unavailable', begins no transaction and
\* leaves the counter, the cursor, the pool and the locks as they are
C15_RejectedAtCeiling ==
  [][\A p \in Requests :
       (Entered(p) /\ concurrentAllocations >= config.maxConcurrentAllocations) =>
         /\ req'[p].pc = "idle"
         /\ req'[p].error = "Service temporarily unavailable"
         /\ concurrentAllocations' = concurrentAllocations
         /\ next_index' = next_index
         /\ recycled_codes' = recycled_codes
         /\ rowLocks' = rowLocks /\ cursorLock' = cursorLock]_vars

\* C16: the counter is the number of admitted calls of allocateCode that have
\* not ended: never negative, never above the ceiling, 0 when no call is in
\* flight; every admitted call takes it down once, when it returns and when it
\* throws
C16_CounterIsInFlight ==
  /\ concurrentAllocations = Cardinality({ p \in Requests : req[p].pc \in TxnOpen })
  /\ concurrentAllocations >= 0
  /\ concurrentAllocations <= config.maxConcurrentAllocations

\* with the ceiling 1: one call is admitted and open, the other was rejected
\* at the limit check, after an earlier call had ended
C16_Witness ==
  /\ config = TightConfig
  /\ concurrentAllocations = 1
  /\ req["r1"].pc = "txn_cursor"
  /\ req["r2"].pc = "idle" /\ req["r2"].at = "alloc"
  /\ req["r2"].error = "Service temporarily unavailable"
  /\ hist.returned # {}

\* number of consecutive indices from i whose codes are reserved
RECURSIVE ReservedRun(_)
ReservedRun(i) ==
  IF indexToCode(i).code \in RESERVED_CODES THEN 1 + ReservedRun(i + 1) ELSE 0

\* C17: minting from the cursor skips reserved codes, incrementing the index at
\* most R = codeAllocationRetries times: when k consecutive codes from the
\* cursor are reserved and k <= R the call takes the first code after them,
\* which is not reserved; when k > R it fails with 'Service temporarily
\* unavailable'; a failure of the storage alone ends it with 'Service error'
C17_SkipWithinRetries ==
  [][\A p \in Requests :
       (req[p].pc = "txn_cursor" /\ req'[p].pc # "txn_cursor") =>
         LET k == ReservedRun(next_index)
             R == config.codeAllocationRetries
         IN  \/ req'[p].pc = "idle" /\ req'[p].error = "Service error"
             \/ /\ k <= R
                /\ req'[p].pc = "txn_update"
                /\ req'[p].index = next_index + k
                /\ req'[p].code = indexToCode(next_index + k).code
                /\ req'[p].code \notin RESERVED_CODES
             \/ /\ k > R
                /\ req'[p].pc = "idle"
                /\ req'[p].error = "Service temporarily unavailable"]_vars

\* with R = 1 and the cursor at the reserved code "app", a call has skipped
\* it and holds the code after it
C17_Witness ==
  \E p \in Requests :
    /\ config.codeAllocationRetries = 1
    /\ next_index = AppIndex
    /\ req[p].pc = "txn_update"
    /\ req[p].index = AppIndex + 1
    /\ req[p].code = << "a", "p", "q" >>

\* C18: every failure of allocateCode reaches its caller as one of the three
\* generic conditions 'Service temporarily unavailable', 'Service configuration
\* error' and 'Service error'; no raw error of the storage layer does
C18_GenericErrorsOnly ==
  \A p \in Requests :
    (req[p].pc = "idle" /\ req[p].at \in { "alloc" } \cup TxnOpen) =>
      req[p].error \in { "Service temporarily unavailable", "Service configuration error",
                         "Service error" }

\* C19: the pruner never deletes a binding whose most recent access (or
\* creation, when it was never accessed) is within the retention period at the
\* moment of the deletion: every row a DELETE of the prune run removes is older
\* than delete_unused_after_days
C19_PruneDeletesOnlyStale ==
  [][(prune.pc = "delete" /\ prune'.pc = "recycle") =>
       \A r \in short_links \ short_links' :
         r.age > config.delete_unused_after_days * MINUTES_PER_DAY]_vars

PoolCodes == { r.short_code : r \in recycled_codes }

\* the prune run returns {skipped: false, affected} in this step
RunCompletes == prune.pc # "idle" /\ prune'.pc = "idle" /\ prune'.result = "ok"

\* a call of allocateCode has read the pool in this step, while the pool holds
\* every code of the last prune run
ReadsAfterRun(p) ==
  /\ req[p].pc = "txn_pool" /\ req'[p].pc \in { "txn_delete", "txn_cursor" }
  /\ prune.pc = "idle" /\ prune.result = "ok" /\ prune.batch # << >>
  /\ Range(prune.batch) \subseteq PoolCodes

C21_DeleteBeforeRelease ==
  /\ prune.pc = "recycle" =>
       /\ Bound(Head(prune.stale)) = {}
       /\ ~InPool(Head(prune.stale))
       /\ prune.deleted >= 1
  /\ prune.pc \in { "delete", "recycle" } =>
       \A i \in DOMAIN prune.stale :
         ~ (InPool(prune.stale[i]) /\ Bound(prune.stale[i]) # {})

\* the run has deleted the stale binding of a code and has not released the
\* code yet, while another binding exists
C21_Witness ==
  /\ prune.pc = "recycle"
  /\ Bound(Head(prune.stale)) = {}
  /\ recycled_codes = {}
  /\ short_links # {}

\* C22: when the DELETE or the release of one code of the batch raises, the
\* codes of the batch after it are still handled: at the end of the run each
\* of them has no binding and is in the pool
C22_BatchContinues ==
  [][(prune.pc \in { "delete", "recycle" } /\ prune'.pc = "idle" /\ prune'.result = "error") =>
       \A i \in DOMAIN prune.stale :
         i > 1 => /\ \A r \in short_links' : r.short_code # prune.stale[i]
                  /\ \E r \in recycled_codes' : r.short_code = prune.stale[i]]_vars

\* schedulePrune sets lastPruneRun and starts a run in this step
RunStarted ==
  /\ sincePrune' = 0
  /\ sincePrune # 0 \/ (prune.pc = "idle" /\ prune'.pc = "select")

\* C23: schedulePrune starts a prune run only when MIN_INTERVAL_MS or more has
\* passed since the run it started before (or none was started yet): whenever
\* and however often it is called, two started runs are at least the minimum
\* interval apart
C23_MinInterval ==
  [][RunStarted => sincePrune * MS_PER_MINUTE >= MIN_INTERVAL_MS]_vars

\* a run was started by the request after a link that is 5 minutes old, whose
\* request started the run before it
C23_Witness ==
  /\ prune.pc = "select" /\ sincePrune = 0
  /\ \E r \in short_links : r.age * MS_PER_MINUTE = MIN_INTERVAL_MS

\* the rate check admits the request of caller p in this step
Admitted(p) == req[p].pc = "idle" /\ req'[p].pc = "alloc"

\* C25: a caller is denied while the links it created inside the sliding
\* window number the per-caller limit or more, and is admitted again only once
\* the window has slid past enough of them: every admitted request finds fewer
\* such creations than the limit
C25_DeniedWhileInWindow ==
  [][\A p \in Requests : Admitted(p) =>
       Len(hist.events[req'[p].client]) < config.linkShortenerPerHour]_vars

\* C24: checkLinkShortenAllowed returns allowed = false exactly when, among the
\* links created inside the sliding window, those of the caller's identity
\* number the per-caller limit or more, or those of the caller's address do,
\* or all of them number the global limit or more; otherwise allowed = true
C24_AllowedExactly ==
  probe.pc = "done" =>
    LET me == Clients[probe.cid]
        inside == { r \in short_links : r.age <= config.rateLimitWindowMinutes }
        ofIdentity == { r \in inside : Clients[r.client].visitor_uuid = me.visitor_uuid }
        ofAddress == { r \in inside : Clients[r.client].ip = me.ip }
        denied == \/ Cardinality(ofIdentity) >= config.linkShortenerPerHour
                  \/ Cardinality(ofAddress) >= config.linkShortenerPerHour
                  \/ Cardinality(inside) >= config.linkShortenerGlobalPerHour
    IN  /\ probe.rl.allowed = ~denied
        /\ probe.rl.byUuid = Cardinality(ofIdentity)
        /\ probe.rl.byIp = Cardinality(ofAddress)
        /\ probe.rl.globalCount = Cardinality(inside)

\* carol is denied for the links of her address alone: she has created none,
\* alice behind the same address has reached the limit on the edge of the
\* window, a third link lies outside the window, and the global count is
\* below its limit
C24_Witness ==
  /\ probe.pc = "done" /\ probe.cid = "carol"
  /\ config = RateConfig2
  /\ ~probe.rl.allowed
  /\ probe.rl.byUuid = 0 /\ probe.rl.byIp = 2 /\ probe.rl.globalCount = 2
  /\ Cardinality(short_links) = 3
  /\ \E r \in short_links : r.age = config.rateLimitWindowMinutes

\* C26: when the INSERT INTO short_links fails after allocate() returned a
\* code (duplicate key or another storage error), the request releases the
\* code: when the request ends, the code is a row of recycled_codes.
C26_ReleasedOnFailure ==
  [][\A p \in Requests :
       req[p].pc = "compensate" /\ req'[p].pc = "idle"
         => \E r \in recycled_codes' : r.short_code = req[p].code]_vars

\* the request ends after a failed insert with a status of its own
EndsAfterFailure(p) == req[p].pc = "compensate" /\ req'[p].pc = "idle"

\* C27: when the compensating release fails, the request still ends with the
\* response of the failed insert: 503 for a duplicate key, 500 otherwise.
C27_OriginalErrorKept ==
  [][\A p \in Requests :
       EndsAfterFailure(p) =>
         req'[p].status = IF req[p].error = "ER_DUP_ENTRY" THEN 503 ELSE 500]_vars

\* a request answered 503 although its release failed: the code it was given
\* is neither bound by it nor in the pool
C27_Witness ==
  /\ req["r1"].pc = "idle"
  /\ req["r1"].status = 503
  /\ next_index = 27
  /\ recycled_codes = {}
  /\ short_links = LowerCaseLinks

\* C28: a release(c) that runs while an allocate() is in flight leaves the
\* store as one of the two serial orders does.  A code a caller holds is not
\* in the pool, and a code that was returned and released since is in the pool
\* (never both, never neither); an allocate() that commits with reused = true
\* takes exactly its code out of the pool, and one that commits with
\* reused = false read a pool without a usable code and leaves the pool as the
\* releases made it.
C28_ReleaseSerial ==
  [][/\ \A c \in hist'.outstanding : ~InPool(c)'
     /\ \A c \in hist'.returned \ hist'.outstanding : InPool(c)'
     /\ \A q \in Requests :
          Commits(q) =>
            IF req'[q].reused
              THEN /\ InPool(req[q].code)
                   /\ req'[q].code = req[q].code
                   /\ recycled_codes' =
                        { r \in recycled_codes : r.short_code # req[q].code }
              ELSE /\ recycled_codes' = recycled_codes
                   /\ \A x \in Range(req[q].batch) : IsReserved(x)]_vars

\* r1 released a code while the transaction of r2 was open: r2 read the pool
\* before, is about to commit a fresh code, and the released code is in the pool
C28_Witness ==
  /\ req["r1"].pc = "idle" /\ req["r1"].at = "released" /\ req["r1"].error = "none"
  /\ req["r2"].pc = "txn_updated"
  /\ req["r2"].code # req["r1"].code
  /\ req["r1"].code \notin Range(req["r2"].batch)
  /\ InPool(req["r1"].code)

\* caller p waits for a row lock that caller q holds: the FOR UPDATE read of
\* the pool for a locked row of its batch, the FOR UPDATE read of the cursor
\* row, or (outside a transaction) the INSERT IGNORE of ensureCodegenTables
WaitsFor(p, q) ==
  /\ p # q
  /\ \/ /\ req[p].pc = "txn_pool"
        /\ \E c \in Range(SelectRecycled(recycled_codes, RECYCLE_LIMIT)) :
             \E l \in rowLocks : l.short_code = c /\ l.owner = q
     \/ /\ req[p].pc \in { "txn_cursor", "alloc", "release" }
        /\ cursorLock = q

\* C29: an allocation transaction locks the pool rows before the cursor row,
\* never the other way round: who holds the cursor row is past its pool read,
\* and who has yet to read the pool holds no lock at all.  No set of callers
\* wait for one another in a circle.
C29_LockOrder ==
  /\ \A p \in Requests :
       /\ cursorLock = p => req[p].pc \in { "txn_update", "txn_updated" }
       /\ req[p].pc \notin TxnOpen \ { "txn_pool" } =>
            cursorLock # p /\ \A l \in rowLocks : l.owner # p
  /\ \A S \in SUBSET Requests \ { {} } :
       \E p \in S : \A q \in S : ~WaitsFor(p, q)

\* r1 holds the lock of a pool row and r2, which entered later, waits for it
\* at its pool read; nobody holds the cursor row
C29_Witness ==
  /\ req["r1"].pc = "txn_delete"
  /\ req["r2"].pc = "txn_pool"
  /\ WaitsFor("r2", "r1")
  /\ cursorLock = "none"

\* BASE^1 + ... + BASE^n: the number of codes of length at most n
RECURSIVE CodesUpTo(_)
CodesUpTo(n) == IF n = 0 THEN 0 ELSE BASE * (1 + CodesUpTo(n - 1))

\* the smallest L with BASE^1 + ... + BASE^L > i, for the indices probed
SmallestLength(i) ==
  CHOOSE L \in 1..5 : CodesUpTo(L) > i /\ \A k \in 1..(L - 1) : CodesUpTo(k) <= i

AlphabetPos(ch) == CHOOSE n \in DOMAIN ALPHABET : ALPHABET[n] = ch

AlphabetBefore(x, y) ==
  \E k \in DOMAIN x :
    /\ \A m \in 1..(k - 1) : x[m] = y[m]
    /\ AlphabetPos(x[k]) < AlphabetPos(y[k])

\* C31: indexToCode enumerates the codes of each length in alphabet order,
\* the first position varying slowest: index i < N gives A[i], N gives
\* A[0]A[0], N + a*N + b gives A[a]A[b] (so N + N^2 - 1 gives A[N-1]A[N-1]),
\* N + N^2 gives A[0]A[0]A[0], and of two consecutive indices with codes of
\* one length the first code comes before the second in alphabet order.
C31_EnumerationOrder ==
  probe.pc = "done" =>
    LET i == probe.i
        N == BASE
    IN  /\ probe.ci.err = "none" /\ probe.cj.err = "none"
        /\ i < N => probe.ci.code = << ALPHABET[i + 1] >>
        /\ i = N => probe.ci.code = << ALPHABET[1], ALPHABET[1] >>
        /\ (N <= i /\ i < N + N * N) =>
             probe.ci.code = << ALPHABET[((i - N) \div N) + 1], ALPHABET[((i - N) % N) + 1] >>
        /\ i = N + N * N - 1 => probe.ci.code = << ALPHABET[N], ALPHABET[N] >>
        /\ i = N + N * N => probe.ci.code = << ALPHABET[1], ALPHABET[1], ALPHABET[1] >>
        /\ Len(probe.ci.code) = Len(probe.cj.code) =>
             AlphabetBefore(probe.ci.code, probe.cj.code)
        /\ Len(probe.ci.code) # Len(probe.cj.code) =>
             /\ Len(probe.cj.code) = Len(probe.ci.code) + 1
             /\ \A k \in DOMAIN probe.ci.code : probe.ci.code[k] = ALPHABET[N]
             /\ \A k \in DOMAIN probe.cj.code : probe.cj.code[k] = ALPHABET[1]

\* the last code of length 2 and the first of length 3 were computed
C31_Witness ==
  /\ probe.pc = "done"
  /\ probe.i = BASE + BASE * BASE - 1
  /\ probe.ci.code = << ":", ":" >>
  /\ probe.cj.code = << "a", "a", "a" >>

\* C32: for every negative index indexToCode throws 'Negative index' and
\* produces no code, and it throws that error for no other index.
C32_NegativeIndex ==
  probe.pc = "done" =>
    /\ probe.i < 0 => probe.ci.err = "Negative index" /\ probe.ci.code = << >>
    /\ probe.i >= 0 => probe.ci.err # "Negative index"

\* indexToCode(-1) threw and indexToCode(0) returned "a"
C32_Witness ==
  /\ probe.pc = "done"
  /\ probe.i = -1 /\ probe.ci.err = "Negative index"
  /\ probe.j = 0 /\ probe.cj.code = << "a" >>

\* C33: an allocate() that commits has one of two effects.  With reused =
\* true it removes exactly the returned code from recycled_codes and leaves
\* next_index as it is; with reused = false it returns indexToCode(k) for a
\* k >= next_index, every index before k from next_index on being reserved,
\* stores k + 1 in next_index and leaves recycled_codes as it is.  reused is
\* true exactly when the code was a row of recycled_codes.
C33_AllocateEffect ==
  [][\A p \in Requests :
       Commits(p) =>
         LET code == req'[p].code
             k == req[p].index
         IN  /\ code # NoCode /\ ~IsReserved(code)
             /\ req'[p].reused <=> InPool(code)
             /\ req'[p].reused =>
                  /\ next_index' = next_index
                  /\ recycled_codes' = recycled_codes \
                       { [short_code |-> code, code_length |-> Len(code)] }
             /\ ~req'[p].reused =>
                  /\ k >= next_index
                  /\ code = indexToCode(k).code
                  /\ \A n \in next_index..(k - 1) : IsReserved(indexToCode(n).code)
                  /\ next_index' = k + 1
                  /\ recycled_codes' = recycled_codes]_vars

\* r1 was returned the fresh code after the reserved "app": the cursor is two
\* past where it started
C33_Witness ==
  /\ req["r1"].pc = "allocated" /\ ~req["r1"].reused
  /\ hist.start = AppIndex
  /\ req["r1"].code = indexToCode(AppIndex + 1).code
  /\ next_index = AppIndex + 2

\* the caller is at or over a limit: the links inside the window that carry
\* its visitor id, or its address, number the per-caller limit, or all links
\* inside the window number the global limit
OverLimit(cid) ==
  LET inside == { r \in short_links : r.age <= config.rateLimitWindowMinutes }
  IN  \/ Cardinality({ r \in inside : Clients[r.client].visitor_uuid = Clients[cid].visitor_uuid })
           >= config.linkShortenerPerHour
      \/ Cardinality({ r \in inside : Clients[r.client].ip = Clients[cid].ip })
           >= config.linkShortenerPerHour
      \/ Cardinality(inside) >= config.linkShortenerGlobalPerHour

\* C34: a request the rate limiter denies is answered 429 without a call of
\* allocateCode: the cursor, the pool, the bindings, the locks and the
\* allocation counter stay as they are.  A request goes on to allocateCode
\* only when its caller is under every limit, and the check changes neither
\* the cursor, the pool nor the bindings.
C34_DeniedLeavesState ==
  [][\A p \in Requests :
       /\ (req[p].pc = "idle" /\ req'[p] # req[p] /\ req'[p].pc = "idle"
             /\ req'[p].status = 429) =>
            UNCHANGED << next_index, recycled_codes, short_links, rowLocks, cursorLock,
                         concurrentAllocations, hist >>
       /\ (req[p].pc = "idle" /\ OverLimit(Caller["r1"])) => req'[p].pc = "idle"
       /\ Admitted(p) =>
            /\ ~OverLimit(req'[p].client)
            /\ UNCHANGED << next_index, recycled_codes, short_links >>
       /\ req'[p].pc = "txn_pool" => req[p].pc \in { "alloc", "txn_pool" }]_vars

\* r1 was denied with its caller's one link bound, while r2 is idle: the
\* cursor is where the first request left it and the pool is empty
C34_Witness ==
  /\ req["r1"].pc = "idle" /\ req["r1"].status = 429
  /\ req["r2"].pc = "idle"
  /\ Cardinality(short_links) = 1
  /\ next_index = 1
  /\ recycled_codes = {}

\* links of the caller created inside the window
HeldInWindow(cid) ==
  { r \in short_links :
      /\ r.age <= config.rateLimitWindowMinutes
      /\ Clients[r.client].visitor_uuid = Clients[cid].visitor_uuid }

\* C35: the links a caller holds that were created inside one window number
\* at most the per-caller limit plus K - 1, K being the largest number of the
\* caller's requests that were in flight at once; with its requests handled
\* one at a time (K = 1) they never number more than the limit.
C35_BoundedOvershoot ==
  \A cid \in ClientIds :
    Cardinality(HeldInWindow(cid)) <=
      config.linkShortenerPerHour + (IF hist.peak > 1 THEN hist.peak - 1 ELSE 0)

\* both requests of the caller passed the check before either inserted: the
\* caller holds one link more than the limit
C35_Witness ==
  /\ hist.peak = 2
  /\ Cardinality(HeldInWindow(Caller["r1"])) = config.linkShortenerPerHour + 1
  /\ \A p \in Requests : req[p].pc = "idle" /\ req[p].status = 200

\* rows of short_links with the code that the user of caller cid owns
OwnedBy(cid, code) ==
  { r \in short_links :
      r.short_code = code /\ Clients[r.client].user_id = Clients[cid].user_id }

KeyTaken(code) == \E r \in short_links : FoldCase(r.short_code) = FoldCase(code)

C38_LockReleased ==
  \A p \in Requests :
    /\ (cursorLock = p) ~> (cursorLock # p)
    /\ (req[p].pc \in TxnOpen \cup { "alloc" }) ~> (req[p].pc \notin TxnOpen \cup { "alloc" })

\* a step of the prune run, not the step of the request that starts it
PruneSteps == prune' # prune /\ ~(prune.pc = "idle" /\ prune'.pc = "select")

\* C39: a failure inside a prune run does not reach its caller.  A step of the
\* run, failing or not, leaves the request as it is, with its locks and the
\* allocation counter; a failing step ends the run with the result 'error'
\* and changes neither the cursor, the pool nor the bindings; the request
\* that starts a run goes on to allocateCode in the same step.
C39_PruneFailureContained ==
  [][/\ PruneSteps =>
          UNCHANGED << req, rowLocks, cursorLock, concurrentAllocations, del >>
     /\ (PruneSteps /\ prune'.result = "error") =>
          /\ prune'.pc = "idle"
          /\ UNCHANGED << next_index, recycled_codes, short_links >>
     /\ (prune.pc = "idle" /\ prune'.pc = "select") =>
          \E p \in Requests : req[p].pc = "idle" /\ req'[p].pc = "alloc"]_vars

\* the run that the request started has failed after deleting nothing, and
\* the request has been given its code
C39_Witness ==
  /\ prune.pc = "idle" /\ prune.result = "error"
  /\ sincePrune = 0
  /\ StaleRows(config.delete_unused_after_days) # {}
  /\ req["r1"].pc = "allocated"

\* the index probed in SpecNumber
ProbedNumber == NumberNear(probe.i, probe.j)

\* C40: indexToCode throws 'Exhausted code space (length > MAX_LEN)' and
\* returns no code for every index whose code would be longer than MAX_LEN,
\* that is for every index >= BASE^1 + ... + BASE^MAX_LEN, and returns a
\* code of length <= MAX_LEN for every smaller index >= 0.
C40_Exhaustion ==
  (probe.pc = "done" /\ probe.i \in NumberLengths) =>
    IF NumLess(ProbedNumber, NumCodesUpTo(MAX_LEN))
      THEN probe.cj.err = "none" /\ probe.cj.length \in 1..MAX_LEN
      ELSE /\ probe.cj.err = "Exhausted code space (length > MAX_LEN)"
           /\ probe.cj.length = 0

TypeOK ==
  /\ next_index \in Nat
  /\ concurrentAllocations \in Nat
  /\ cursorLock \in Requests \cup { "none" }

====
